---------------------------- MODULE Spec2Model ----------------------------
(***************************************************************************)
(* A model of bracketcore (src/bracketcore/bracketcore_codebase.py): the   *)
(* team registry, the series container (result log), seedings and their    *)
(* rematch-avoiding search, the seeding interpreters (pairing strategies), *)
(* differential containers, matchups, match sets and the bracket model.    *)
(*                                                                         *)
(* Conventions.  Python's None is modelled by 0 where a team is expected   *)
(* (teams are the positive integers, a team object being identified with   *)
(* its id) and by the empty tuple <<>> where an optional argument is       *)
(* expected (<<v>> is a supplied value v).  Python lists and dicts are     *)
(* sequences; a dict is the sequence of its <<key, value>> items in        *)
(* insertion order.  Python's 0-based positions are written 1-based here,  *)
(* except for the permutations handed to the interpreters, which hold the  *)
(* 0-based positions the code computes with.                               *)
(***************************************************************************)
EXTENDS Integers, Sequences, FiniteSets, TLC

VARIABLES
    tc,          \* TeamContainer: [teams, indexes]
    sc_indexes,  \* SeriesContainer._indexes: dict (id, id) -> bucket position
    sc_series,   \* SeriesContainer._series: list of buckets of Series
    seeding_,    \* Seeding.seeding_ of the seeding under test
    pin,         \* the list handed to a SeedingInterpreter
    pout,        \* the list of pairs it returned
    heap,        \* the int lists DifferentialContainer._values refer to
    conts,       \* the DifferentialContainer objects: [vals, indexes, src, how]
    dobjs,       \* the Differentials objects: [indexes, rgd, vgd, rsd, vsd]
    mres,        \* result_ of a free-standing Matchup
    matchups,    \* BracketModel._matchups: keys in insertion order
    node_result, \* result_ of every node object of the bracket
    results,     \* BracketModel.results: dict key -> outcome
    complete,    \* BracketModel.complete
    df,          \* the shared Differentials handed to calculate
    op,          \* the last operation, its arguments and what it returned
    hreg,        \* history: number of register calls per unordered pair
    hok,         \* history: number of successful takes per unordered pair
    htaken       \* history: the results returned by successful takes

vars == <<tc, sc_indexes, sc_series, seeding_, pin, pout, heap, conts, dobjs,
          mres,
          matchups, node_result, results, complete, df, op, hreg, hok, htaken>>

-----------------------------------------------------------------------------
(* Bounds of the model.                                                    *)

\* teams registered in the specifications of the matchup and the tracks
NumTeams == 2
\* teams registered in the specification of the seeding search
SortTeams == 4
\* register calls in one run of the log
MaxReg == 2
\* register calls in one run of the bracket
MaxResults == 3
\* results registered before the seeding search starts
MaxPlayed == 3
\* length of the list handed to a seeding interpreter
MaxSeedLen == 4
\* scores of a recorded series are 0..MaxScore
MaxScore == 2
\* DifferentialContainer objects created by copy in one run
MaxConts == 2
\* values written to a differential container are 0..MaxVal
MaxVal == 1

None == 0

-----------------------------------------------------------------------------
(* Python helpers.                                                         *)

\* dict lookup: the value of the first (only) item with this key
RECURSIVE DictGet(_, _)
DictGet(d, k) ==
    IF d = <<>> THEN None
    ELSE IF d[1][1] = k THEN d[1][2] ELSE DictGet(Tail(d), k)

DictHas(d, k) == \E i \in 1..Len(d) : d[i][1] = k

\* d[k] = v: replaces the value in place, or appends a new item
DictSet(d, k, v) ==
    IF DictHas(d, k)
    THEN [i \in 1..Len(d) |-> IF d[i][1] = k THEN <<k, v>> ELSE d[i]]
    ELSE Append(d, <<k, v>>)

\* Python's "o or dflt" for an optional int: None and 0 are falsy
\* an "or" that kept a supplied 0
OrIntKeepsZero(o, dflt) == IF o # <<>> THEN o[1] ELSE dflt

OrInt(o, dflt) == IF o # <<>> /\ o[1] # 0 THEN o[1] ELSE dflt

\* Python's "o or dflt" for an optional bool: None and False are falsy
OrBool(o, dflt) == IF o # <<>> /\ o[1] THEN o[1] ELSE dflt

Range(s) == {s[i] : i \in 1..Len(s)}

-----------------------------------------------------------------------------
(* Team and TeamContainer.                                                 *)

\* Team(id, name, *aliases): team t is registered with one alias
Team(t) == [id |-> t, name |-> <<"name", t>>, aliases |-> << <<"alias", t>> >>]

RECURSIVE AddAliases(_, _, _)
AddAliases(indexes, aliases, index) ==
    IF aliases = <<>> THEN indexes
    ELSE AddAliases(DictSet(indexes, aliases[1], index), Tail(aliases), index)

\* TeamContainer._add_team
AddTeam(c, team) ==
    LET index == Len(c.teams) + 1
        i1 == DictSet(c.indexes, team.name, index)
        i2 == DictSet(i1, <<"id", team.id>>, index)
    IN [teams |-> Append(c.teams, team),
        indexes |-> AddAliases(i2, team.aliases, index)]

\* the registry after register(Team(1)), ..., register(Team(n))
RECURSIVE TeamContainerOf(_)
TeamContainerOf(n) ==
    IF n = 0 THEN [teams |-> <<>>, indexes |-> <<>>]
    ELSE AddTeam(TeamContainerOf(n - 1), Team(n))

\* the identifiers a caller may name team t by: the Team object, id, name, alias
Identifiers(c) ==
    {<<"team", c.teams[i].id>> : i \in 1..Len(c.teams)}
        \cup {c.indexes[i][1] : i \in 1..Len(c.indexes)}

\* TeamContainer._get_team_index; the caller passes registered identifiers
\* only (an unknown one raises KeyError before any state is changed)
TcGetTeamIndex(c, k) ==
    LET key == IF k[1] = "team" THEN <<"id", k[2]>> ELSE k
    IN DictGet(c.indexes, key)

\* TeamContainer.get / __getitem__: the team object (its id)
TcGet(c, k) == c.teams[TcGetTeamIndex(c, k)].id

TeamIds(c) == {c.teams[i].id : i \in 1..Len(c.teams)}

-----------------------------------------------------------------------------
(* Series and SeriesContainer.                                             *)

\* Series.__init__ on the arguments a; sid is the identity of the object
\* created.  "rwin_1 or True if rscore_1 > rscore_2 else False" parses as
\* "(rwin_1 or True) if rscore_1 > rscore_2 else False".
SeriesInit(sid, a) ==
    LET rw1 == IF a.rscore_1 > a.rscore_2 THEN OrBool(a.rwin_1, TRUE) ELSE FALSE
        rw2 == IF a.rscore_1 < a.rscore_2 THEN OrBool(a.rwin_2, TRUE) ELSE FALSE
    IN [sid |-> sid, team_1 |-> a.team_1, team_2 |-> a.team_2,
        rscore_1 |-> a.rscore_1, rscore_2 |-> a.rscore_2,
        rwin_1 |-> rw1, rwin_2 |-> rw2,
        vscore_1 |-> OrInt(a.vscore_1, a.rscore_1),
        vscore_2 |-> OrInt(a.vscore_2, a.rscore_2),
        vwin_1 |-> OrBool(a.vwin_1, rw1), vwin_2 |-> OrBool(a.vwin_2, rw2),
        exhaused |-> FALSE]

\* the arguments of Series(team_1, team_2, rscore_1, rscore_2)
PlainArgs(t1, t2, r1, r2) ==
    [team_1 |-> t1, team_2 |-> t2, rscore_1 |-> r1, rscore_2 |-> r2,
     rwin_1 |-> <<>>, rwin_2 |-> <<>>, vscore_1 |-> <<>>, vscore_2 |-> <<>>,
     vwin_1 |-> <<>>, vwin_2 |-> <<>>]

Reversed2(m) == <<m[2], m[1]>>

\* a variant of RegisterIndexes that indexes the registered orientation only
RegisterIndexesOneWay(indexes, matchup, index) ==
    DictSet(indexes, matchup, index)

\* SeriesContainer.register, lines 278-279: both orientations to one bucket
RegisterIndexes(indexes, matchup, index) ==
    DictSet(DictSet(indexes, matchup, index), Reversed2(matchup), index)

\* SeriesContainer.register on the pair [indexes, series]
RegisterOp(sc, series) ==
    LET matchup == <<series.team_1, series.team_2>>
    IN IF DictHas(sc.indexes, matchup)
       THEN LET b == DictGet(sc.indexes, matchup)
            IN [indexes |-> sc.indexes,
                series |-> [sc.series EXCEPT ![b] = Append(@, series)]]
       ELSE LET index == Len(sc.series) + 1
            IN [indexes |-> RegisterIndexes(sc.indexes, matchup, index),
                series |-> Append(sc.series, <<series>>)]

\* a scan that did not look at the exhaused flag
FirstOfBucket(bucket, i) == IF i > Len(bucket) THEN 0 ELSE i

\* position of the first series of the bucket that is not exhausted, 0 if none
RECURSIVE FirstFresh(_, _)
FirstFresh(bucket, i) ==
    IF i > Len(bucket) THEN 0
    ELSE IF ~bucket[i].exhaused THEN i ELSE FirstFresh(bucket, i + 1)

\* a variant of MarkExhaused that forgets to set the flag
MarkExhausedNot(bucket, i) == bucket

\* SeriesContainer._get_series, line 290: series_.exhaused = True
MarkExhaused(bucket, i) == [bucket EXCEPT ![i].exhaused = TRUE]

\* the None that _get_series returns when it finds no series
NoSeries == [sid |-> 0]

\* a _get_series that set the flag of the series it returns and cleared the
\* flag of every other series of the bucket
GetSeriesReopens(c, sc, k1, k2) ==
    LET t1 == TcGet(c, k1)
        t2 == TcGet(c, k2)
        matchup == <<t1, t2>>
    IN IF DictHas(sc.indexes, matchup)
       THEN LET b == DictGet(sc.indexes, matchup)
                i == FirstFresh(sc.series[b], 1)
                bucket == [n \in 1..Len(sc.series[b]) |->
                              [sc.series[b][n] EXCEPT !.exhaused = (n = i)]]
            IN IF i = 0 THEN [ret |-> NoSeries, series |-> sc.series]
               ELSE [ret |-> bucket[i],
                     series |-> [sc.series EXCEPT ![b] = bucket]]
       ELSE [ret |-> NoSeries, series |-> sc.series]

\* SeriesContainer._get_series on the pair [indexes, series]:
\* [ret |-> the series returned (sid 0: None), series |-> the buckets after]
GetSeries(c, sc, k1, k2) ==
    LET t1 == TcGet(c, k1)
        t2 == TcGet(c, k2)
        matchup == <<t1, t2>>
    IN IF DictHas(sc.indexes, matchup)
       THEN LET b == DictGet(sc.indexes, matchup)
                i == FirstFresh(sc.series[b], 1)
            IN IF i = 0 THEN [ret |-> NoSeries, series |-> sc.series]
               ELSE [ret |-> MarkExhaused(sc.series[b], i)[i],
                     series |-> [sc.series EXCEPT ![b] = MarkExhaused(@, i)]]
       ELSE [ret |-> NoSeries, series |-> sc.series]

RECURSIVE Flatten(_)
Flatten(ss) == IF ss = <<>> THEN <<>> ELSE ss[1] \o Flatten(Tail(ss))

\* a get_played_series that listed the newest entry first
PlayedNewestFirst(series) ==
    LET played == SelectSeq(Flatten(series), LAMBDA s : s.exhaused)
    IN [i \in 1..Len(played) |-> played[Len(played) + 1 - i]]

\* SeriesContainer.get_played_series
GetPlayedSeries(series) == SelectSeq(Flatten(series), LAMBDA s : s.exhaused)

SC == [indexes |-> sc_indexes, series |-> sc_series]

-----------------------------------------------------------------------------
(* The values of the variables a specification does not use.               *)

IdleLog ==
    /\ sc_indexes = <<>> /\ sc_series = <<>>
    /\ hreg = <<>> /\ hok = <<>> /\ htaken = {}
IdleSeeding == seeding_ = <<>>
IdlePairs == pin = <<>> /\ pout = <<>>
IdleTracks == heap = <<>> /\ conts = <<>> /\ dobjs = <<>>
IdleMatchup == mres = <<>>
IdleBracket ==
    /\ matchups = <<>> /\ node_result = <<>> /\ results = <<>>
    /\ complete = FALSE
IdleDf == df = <<>>

logVars == <<sc_indexes, sc_series>>
histVars == <<hreg, hok, htaken>>
pairVars == <<pin, pout>>
trackVars == <<heap, conts, dobjs>>
bracketVars == <<matchups, node_result, results, complete>>

-----------------------------------------------------------------------------
(* SpecLog: the series container under register and take calls.            *)

\* an unordered pair of teams, as the ordered pair of its smaller and larger id
UPair(a, b) == IF a <= b THEN <<a, b>> ELSE <<b, a>>

UPairs(c) == {UPair(a, b) : a \in TeamIds(c), b \in TeamIds(c)}

NumRegistered == Len(Flatten(sc_series))

\* the registry of the log: three teams, so that pairs overlap in one team
LogRegistry == TeamContainerOf(1 + 2)

InitLog ==
    /\ tc = LogRegistry
    /\ sc_indexes = <<>> /\ sc_series = <<>>
    /\ hreg = [p \in UPairs(tc) |-> 0]
    /\ hok = [p \in UPairs(tc) |-> 0]
    /\ htaken = {}
    /\ op = <<"init">>
    /\ IdleSeeding /\ IdlePairs /\ IdleTracks /\ IdleMatchup /\ IdleBracket /\ IdleDf

\* sc.register(Series(t1, t2, 1, 0)): a new result of the pair
LogRegister ==
    \E t1 \in TeamIds(tc), t2 \in TeamIds(tc) :
        /\ t1 # t2
        /\ NumRegistered < MaxReg
        /\ LET s == SeriesInit(NumRegistered + 1, PlainArgs(t1, t2, 1, 0))
               r == RegisterOp(SC, s)
           IN /\ sc_indexes' = r.indexes
              /\ sc_series' = r.series
              /\ op' = <<"register", t1, t2, s.sid>>
        /\ hreg' = [hreg EXCEPT ![UPair(t1, t2)] = @ + 1]
        /\ UNCHANGED <<tc, hok, htaken, seeding_, pairVars, trackVars, mres,
                       bracketVars, df>>

\* sc.get(k1, k2) / sc[k1, k2], the first team named by any identifier and
\* the second by its object: op records the teams the identifiers resolve
\* to, the result returned and the buckets as they were before the call
LogTake ==
    \E k1 \in Identifiers(tc), k2 \in {<<"team", t>> : t \in TeamIds(tc)} :
        LET r == GetSeries(tc, SC, k1, k2)
            t1 == TcGet(tc, k1)
            t2 == TcGet(tc, k2)
        IN /\ sc_series' = r.series
           /\ op' = <<"take", t1, t2, r.ret.sid, sc_series>>
           /\ hok' = IF r.ret.sid = 0 THEN hok
                     ELSE [hok EXCEPT ![UPair(t1, t2)] = @ + 1]
           /\ htaken' = IF r.ret.sid = 0 THEN htaken
                        ELSE htaken \cup {r.ret.sid}
           /\ UNCHANGED <<tc, sc_indexes, hreg, seeding_, pairVars, trackVars,
                          mres, bracketVars, df>>

\* sc.get_played_series(): op records the list returned and the buckets as
\* they were before the call
LogPlayed ==
    /\ op[1] # "get_played_series"
    /\ op' = <<"get_played_series", GetPlayedSeries(sc_series), sc_series>>
    /\ UNCHANGED <<tc, logVars, histVars, seeding_, pairVars, trackVars, mres,
                   bracketVars, df>>

NextLog == LogRegister \/ LogTake \/ LogPlayed

SpecLog == InitLog /\ [][NextLog]_vars

\* the results of the unordered pair p among the series ss
OfPair(ss, p) == {s \in Range(ss) : UPair(s.team_1, s.team_2) = p}

\* C1: for every pair, the takes on it succeed exactly as long as fewer
\* results have been returned for the pair than were registered for it: with
\* N registered results the first N takes each return a registered result of
\* the pair that no earlier take returned, and every later take returns None.
C1_TakeExhausts ==
    /\ \A p \in DOMAIN hok : hok[p] <= hreg[p]
    /\ Cardinality(htaken) = Cardinality({s \in Range(Flatten(sc_series)) : s.exhaused})
    /\ op[1] = "take" =>
           LET p == UPair(op[2], op[3])
           IN IF op[4] = 0 THEN hok[p] = hreg[p]
              ELSE /\ op[4] \in htaken
                   /\ op[4] \in {s.sid : s \in OfPair(Flatten(sc_series), p)}

\* two results of one pair were both taken and a third take returned None
C1_Witness ==
    /\ op[1] = "take" /\ op[4] = 0
    /\ hreg[UPair(op[2], op[3])] = 2
    /\ hok[UPair(op[2], op[3])] = 2

\* the buckets pre with the consumed flag of result sid set
WithFlag(pre, sid) ==
    [b \in DOMAIN pre |->
        [i \in DOMAIN pre[b] |->
            IF pre[b][i].sid = sid THEN [pre[b][i] EXCEPT !.exhaused = TRUE]
            ELSE pre[b][i]]]

\* C8: a take on (A,B) or (B,A) returns the earliest-registered result of
\* the unordered pair whose consumed flag is unset, whichever orientation it
\* was registered in, sets the flag of that result and changes nothing else;
\* it returns None, changing nothing, when the pair has no such result.
C8_TakeEarliestOfBucket ==
    op[1] = "take" =>
        LET pre == op[5]
            fresh == {s \in OfPair(Flatten(pre), UPair(op[2], op[3])) :
                         ~s.exhaused}
        IN IF fresh = {} THEN op[4] = 0 /\ sc_series = pre
           ELSE /\ op[4] \in {s.sid : s \in fresh}
                /\ \A s \in fresh : op[4] <= s.sid
                /\ sc_series = WithFlag(pre, op[4])

\* a take naming the pair in the orientation opposite to the registered one
\* returned the second result of a bucket whose first result was consumed
C8_Witness ==
    /\ op[1] = "take" /\ op[4] = 2
    /\ \E b \in DOMAIN sc_series :
           /\ Len(sc_series[b]) = 2
           /\ sc_series[b][1].exhaused /\ sc_series[b][2].exhaused
           /\ sc_series[b][2].sid = 2
           /\ sc_series[b][2].team_1 = op[3] /\ sc_series[b][2].team_2 = op[2]
           /\ sc_series[b][1].team_1 = op[2]

-----------------------------------------------------------------------------
(* SeedingInterpreter: the pairing strategies.                             *)

\* zip(a, b): pairs up to the shorter of the two lists
RECURSIVE Zip(_, _)
Zip(a, b) ==
    IF a = <<>> \/ b = <<>> THEN <<>>
    ELSE << <<a[1], b[1]>> >> \o Zip(Tail(a), Tail(b))

\* list(reversed(s))
RECURSIVE ReversedList(_)
ReversedList(s) ==
    IF s = <<>> THEN <<>> ELSE Append(ReversedList(Tail(s)), s[1])

\* "if len(seeding) % 2: seeding.pop()"
PopIfOdd(s) == IF Len(s) % 2 = 1 THEN SubSeq(s, 1, Len(s) - 1) ELSE s

\* SeedingInterpreter.standard
Standard(sg) ==
    LET seeding == PopIfOdd(sg)
        half == Len(seeding) \div 2
    IN Zip(SubSeq(seeding, 1, half), SubSeq(seeding, half + 1, Len(seeding)))

\* a variant of Reversed that keeps the trailing element of an odd list
ReversedNoPop(sg) ==
    LET half == Len(sg) \div 2
    IN Zip(SubSeq(sg, 1, half), ReversedList(SubSeq(sg, half + 1, Len(sg))))

\* SeedingInterpreter.reversed
Reversed(sg) ==
    LET seeding == PopIfOdd(sg)
        half == Len(seeding) \div 2
    IN Zip(SubSeq(seeding, 1, half),
           ReversedList(SubSeq(seeding, half + 1, Len(seeding))))

\* the interpreter named si applied to a list
Interpret(si, sg) == IF si = "standard" THEN Standard(sg) ELSE Reversed(sg)

\* the list xs without its i-th element
RemoveAt(xs, i) == SubSeq(xs, 1, i - 1) \o SubSeq(xs, i + 1, Len(xs))

\* itertools.permutations(xs): every arrangement of xs, in the lexicographic
\* order of the positions of xs
RECURSIVE ItertoolsPermutations(_)
ItertoolsPermutations(xs) ==
    IF xs = <<>> THEN << <<>> >>
    ELSE Flatten([i \in 1..Len(xs) |->
            LET rest == ItertoolsPermutations(RemoveAt(xs, i))
            IN [j \in 1..Len(rest) |-> <<xs[i]>> \o rest[j]]])

\* Seeding._get_rematch_permutations for every length: permutations of
\* list(range(0, num_teams))
RematchPermutations ==
    [n \in 0..(SortTeams + 1) |-> ItertoolsPermutations([i \in 1..n |-> i - 1])]

\* SeedingInterpreter.random: random.shuffle leaves any arrangement
Random(sg, shuffle) == Standard([i \in 1..Len(sg) |-> sg[shuffle[i] + 1]])

-----------------------------------------------------------------------------
(* SpecPairs: the interpreters applied to a list.                          *)

\* the lists of length n over the values S
Lists(S, n) == [1..n -> S]

InitPairs ==
    /\ tc = TeamContainerOf(SortTeams)
    /\ pin \in UNION {Lists(TeamIds(tc) \cup {None}, n) : n \in 0..MaxSeedLen}
    /\ pout = <<>>
    /\ op = <<"init">>
    /\ IdleLog /\ IdleSeeding /\ IdleTracks /\ IdleMatchup /\ IdleBracket /\ IdleDf

idlePairs == <<tc, logVars, histVars, seeding_, trackVars, mres, bracketVars, df>>

PairsStandard ==
    /\ op[1] = "init"
    /\ pout' = Standard(pin)
    /\ op' = <<"standard">>
    /\ UNCHANGED <<pin, idlePairs>>

PairsReversed ==
    /\ op[1] = "init"
    /\ pout' = Reversed(pin)
    /\ op' = <<"reversed">>
    /\ UNCHANGED <<pin, idlePairs>>

PairsRandom ==
    /\ op[1] = "init"
    /\ Len(pin) <= SortTeams + 1
    /\ \E k \in 1..Len(RematchPermutations[Len(pin)]) :
           pout' = Random(pin, RematchPermutations[Len(pin)][k])
    /\ op' = <<"random">>
    /\ UNCHANGED <<pin, idlePairs>>

NextPairs == PairsStandard \/ PairsReversed \/ PairsRandom

SpecPairs == InitPairs /\ [][NextPairs]_vars

\* C9: for a list of n slots the sequential strategy returns the
\* h = floor(n/2) pairs (s[i], s[h+i]) and the cross strategy the h pairs
\* (s[i], s[2h-1-i]), i = 0..h-1 (0-based), the last slot being ignored
\* when n is odd.
C9_PairingShape ==
    op[1] \in {"standard", "reversed"} =>
        LET h == Len(pin) \div 2
        IN /\ Len(pout) = h
           /\ \A i \in 0..(h - 1) :
                  pout[i + 1] =
                      IF op[1] = "standard" THEN <<pin[i + 1], pin[h + i + 1]>>
                      ELSE <<pin[i + 1], pin[2 * h - 1 - i + 1]>>

\* the cross strategy applied to an odd list of distinct teams
C9_Witness ==
    /\ op[1] = "reversed"
    /\ Len(pin) = 3 /\ Cardinality(Range(pin) \ {None}) = 3
    /\ Len(pout) = 1

-----------------------------------------------------------------------------
(* Seeding.                                                                *)

\* a set that left out the identifiers that are None
SeedingSetResolved(c, identifiers) ==
    LET given == SelectSeq(identifiers, LAMBDA id : id # None)
    IN [i \in 1..Len(given) |-> TcGet(c, <<"team", given[i]>>)]

\* Seeding.set: every identifier that is not None is resolved by the registry
SeedingSet(c, identifiers) ==
    [i \in 1..Len(identifiers) |->
        IF identifiers[i] # None THEN TcGet(c, <<"team", identifiers[i]>>)
        ELSE None]

\* list.index: the 0-based position of the first occurrence of x
RECURSIVE ListIndexFrom(_, _, _)
ListIndexFrom(l, x, i) ==
    IF l[i] = x THEN i - 1 ELSE ListIndexFrom(l, x, i + 1)

ListIndex(l, x) == ListIndexFrom(l, x, 1)

\* Differentials.__init__, lines 36-43: the identifier index of a track
RECURSIVE DiffIndexes(_, _)
DiffIndexes(teams, i) ==
    IF i > Len(teams) THEN <<>>
    ELSE LET rest == DiffIndexes(teams, i + 1)
             own == AddAliases(<< <<teams[i].name, i>>, <<<<"id", teams[i].id>>, i>> >>,
                               teams[i].aliases, i)
         IN own \o rest

\* DifferentialContainer._get_team_index: a Team object is looked up by its id
DcGetTeamIndex(indexes, k) ==
    LET key == IF k[1] = "team" THEN <<"id", k[2]>> ELSE k
    IN DictGet(indexes, key)

\* the sort key of a team: "criteria[team] * coef" for a differential
\* container, "coef * criteria.seeding_.index(team)" for a seeding
RECURSIVE SortKey(_, _, _)
SortKey(c, sort_by, team) ==
    IF sort_by = <<>> THEN <<>>
    ELSE LET coef == sort_by[1][1]
             criteria == sort_by[1][2]
             i == DcGetTeamIndex(DiffIndexes(c.teams, 1), <<"team", team>>)
             v == IF criteria.kind = "dc" THEN criteria.values[i] * coef
                  ELSE coef * ListIndex(criteria.seeding_, team)
         IN <<v>> \o SortKey(c, Tail(sort_by), team)

\* Python's "a < b" on two lists of ints of one length
RECURSIVE ListLess(_, _)
ListLess(a, b) ==
    IF a = <<>> THEN FALSE
    ELSE IF a[1] # b[1] THEN a[1] < b[1] ELSE ListLess(Tail(a), Tail(b))

\* an insertion that put x in front of the items whose key equals its own
RECURSIVE InsertKeyedUnstable(_, _)
InsertKeyedUnstable(sorted, x) ==
    IF sorted = <<>> THEN <<x>>
    ELSE IF ~ListLess(sorted[1][1], x[1]) THEN <<x>> \o sorted
         ELSE <<sorted[1]>> \o InsertKeyedUnstable(Tail(sorted), x)

\* list.sort(key = ...) is stable: x goes behind every item whose key is
\* not greater than its own
RECURSIVE InsertKeyed(_, _)
InsertKeyed(sorted, x) ==
    IF sorted = <<>> THEN <<x>>
    ELSE IF ListLess(x[1], sorted[1][1]) THEN <<x>> \o sorted
         ELSE <<sorted[1]>> \o InsertKeyed(Tail(sorted), x)

RECURSIVE SortKeyed(_, _)
SortKeyed(keyed, n) ==
    IF n = 0 THEN <<>> ELSE InsertKeyed(SortKeyed(keyed, n - 1), keyed[n])

\* Seeding.sort: unchanged when a slot is None
Sort(c, seeding, sort_by) ==
    IF \E i \in 1..Len(seeding) : seeding[i] = None THEN seeding
    ELSE LET keyed == [i \in 1..Len(seeding) |->
                          <<SortKey(c, sort_by, seeding[i]), seeding[i]>>]
             sorted == SortKeyed(keyed, Len(keyed))
         IN [i \in 1..Len(sorted) |-> sorted[i][2]]

\* line 372: the played series both of whose teams are in the seeding, as
\* pairs of 0-based positions
PlayedIndexes(seeding, played) ==
    LET here == SelectSeq(played, LAMBDA x :
                    x.team_1 \in Range(seeding) /\ x.team_2 \in Range(seeding))
    IN [i \in 1..Len(here) |->
           <<ListIndex(seeding, here[i].team_1), ListIndex(seeding, here[i].team_2)>>]

\* a variant of PreviousMatchupIndexes that keeps the played orientation only
PreviousMatchupIndexesOneWay(seeding, played) == PlayedIndexes(seeding, played)

\* lines 372-373: previous_matchup_indexes, in both orientations
PreviousMatchupIndexes(seeding, played) ==
    LET one == PlayedIndexes(seeding, played)
    IN one \o [i \in 1..Len(one) |-> Reversed2(one[i])]

\* lines 377-383: rematch_found for one permutation
RematchFound(si, rematch_permutation, previous) ==
    LET interpreted == Interpret(si, rematch_permutation)
    IN \E i \in 1..Len(interpreted) : interpreted[i] \in Range(previous)

\* a rearrangement that filled every slot from the first index of the
\* permutation
RearrangedFromFirst(seeding, permutation) ==
    [i \in 1..Len(permutation) |-> seeding[permutation[1] + 1]]

\* line 386: [self.seeding_[index] for index in rematch_permutation]
Rearranged(seeding, permutation) ==
    [i \in 1..Len(permutation) |-> seeding[permutation[i] + 1]]

\* a variant of Exhausted that leaves the last permutation generated
ExhaustedAtLast(seeding, permutations) ==
    [seeding |-> Rearranged(seeding, permutations[Len(permutations)]),
     ret |-> "None"]

\* the loop of lines 375-387 ran out of permutations: nothing is assigned
\* and the function returns None implicitly
Exhausted(seeding, permutations) == [seeding |-> seeding, ret |-> "None"]

\* a search that goes through the permutations from the last to the first
RECURSIVE SearchBackwards(_, _, _, _, _)
SearchBackwards(seeding, permutations, previous, si, k) ==
    IF k > Len(permutations) THEN Exhausted(seeding, permutations)
    ELSE IF ~RematchFound(si, permutations[Len(permutations) + 1 - k], previous)
         THEN [seeding |-> Rearranged(seeding, permutations[Len(permutations) + 1 - k]),
               ret |-> "self"]
         ELSE SearchBackwards(seeding, permutations, previous, si, k + 1)

\* lines 375-387: the first permutation from the k-th on without a rematch
RECURSIVE Search(_, _, _, _, _)
Search(seeding, permutations, previous, si, k) ==
    IF k > Len(permutations) THEN Exhausted(seeding, permutations)
    ELSE IF ~RematchFound(si, permutations[k], previous)
         THEN [seeding |-> Rearranged(seeding, permutations[k]), ret |-> "self"]
         ELSE Search(seeding, permutations, previous, si, k + 1)

\* Seeding.sort_no_rematches: [seeding, ret, sorted], sorted being the
\* seeding the search started from
SortNoRematches(c, seeding, series, si, sort_by) ==
    LET sorted == IF sort_by # <<>> THEN Sort(c, seeding, sort_by) ELSE seeding
        previous == PreviousMatchupIndexes(sorted, GetPlayedSeries(series))
        found == Search(sorted, RematchPermutations[Len(sorted)], previous, si, 1)
    IN [seeding |-> found.seeding, ret |-> found.ret, sorted |-> sorted]

-----------------------------------------------------------------------------
(* SpecSort: a log of registered results, takes, then one rematch search.  *)

\* the pairs t1 < t2 of registered teams, in lexicographic order
OrderedPairs(c) ==
    LET n == Len(c.teams)
    IN SelectSeq([k \in 1..(n * n) |-> <<((k - 1) \div n) + 1, ((k - 1) % n) + 1>>],
                 LAMBDA m : m[1] < m[2])

\* the log after sc.register(Series(t1, t2, 1, 0)) for the pairs chosen
RECURSIVE RegisterAll(_, _, _)
RegisterAll(sc, pairs, chosen) ==
    IF pairs = <<>> THEN sc
    ELSE IF pairs[1] \in chosen
         THEN RegisterAll(
                  RegisterOp(sc, SeriesInit(Len(Flatten(sc.series)) + 1,
                                 PlainArgs(pairs[1][1], pairs[1][2], 1, 0))),
                  Tail(pairs), chosen)
         ELSE RegisterAll(sc, Tail(pairs), chosen)

Ident(n) == [i \in 1..n |-> i]

\* the arguments of Seeding.set: the teams in order, and one list whose
\* last slot is None
SeedingInputs(n) ==
    {Ident(k) : k \in 0..n} \cup {[Ident(n - 1) EXCEPT ![n - 1] = None]}

\* the criteria handed to sort_no_rematches: none, a track, a track and
\* then a seeding
SortByInputs(c) ==
    LET n == Len(c.teams)
        track == [kind |-> "dc", values |-> [i \in 1..n |-> i % 2]]
        other == [kind |-> "seeding", seeding_ |-> [i \in 1..n |-> n + 1 - i]]
    IN {<<>>, << <<-1, track>> >>, << <<1, track>>, <<1, other>> >>}

InitSort ==
    /\ tc = TeamContainerOf(SortTeams)
    /\ \E chosen \in SUBSET Range(OrderedPairs(tc)) :
           /\ Cardinality(chosen) <= MaxPlayed
           /\ LET sc == RegisterAll([indexes |-> <<>>, series |-> <<>>],
                                    OrderedPairs(tc), chosen)
              IN sc_indexes = sc.indexes /\ sc_series = sc.series
    /\ \E identifiers \in SeedingInputs(SortTeams) :
           seeding_ = SeedingSet(tc, identifiers)
    /\ hreg = <<>> /\ hok = <<>> /\ htaken = {}
    /\ op = <<"init">>
    /\ IdlePairs /\ IdleTracks /\ IdleMatchup /\ IdleBracket /\ IdleDf

idleSort == <<tc, histVars, pairVars, trackVars, mres, bracketVars, df>>

\* sc.get(t1, t2) on a registered pair, before the search
SortTake ==
    /\ op[1] # "sort_no_rematches"
    /\ \E t1 \in TeamIds(tc), t2 \in TeamIds(tc) :
           LET r == GetSeries(tc, SC, <<"team", t1>>, <<"team", t2>>)
           IN /\ r.ret.sid # 0
              /\ sc_series' = r.series
              /\ op' = <<"take">>
    /\ UNCHANGED <<sc_indexes, seeding_, idleSort>>

\* seeding.sort_no_rematches(sc, si, *sort_by): op records the interpreter,
\* what the call returned, the seeding before the call and the seeding the
\* search started from
SortSearch ==
    /\ op[1] # "sort_no_rematches"
    /\ \E si \in {"standard", "reversed"}, sort_by \in SortByInputs(tc) :
           LET r == SortNoRematches(tc, seeding_, sc_series, si, sort_by)
           IN /\ seeding_' = r.seeding
              /\ op' = <<"sort_no_rematches", si, r.ret, seeding_, r.sorted,
                          sort_by = <<>>>>
    /\ UNCHANGED <<logVars, idleSort>>

NextSort == SortTake \/ SortSearch

SpecSort == InitSort /\ [][NextSort]_vars

\* the unordered pairs of the consumed results of the log
ConsumedPairs ==
    {UPair(x.team_1, x.team_2) : x \in {y \in Range(Flatten(sc_series)) : y.exhaused}}

\* the pairs the strategy si derives from a seeding, as unordered pairs
DerivedPairs(si, seeding) ==
    {UPair(m[1], m[2]) : m \in Range(Interpret(si, seeding))}

DistinctResolved(seeding) ==
    /\ \A i \in 1..Len(seeding) : seeding[i] # None
    /\ Cardinality(Range(seeding)) = Len(seeding)

\* some arrangement of the seeding is free of rematches under si
SomeRematchFree(si, seeding) ==
    LET consumed == ConsumedPairs
        arrangements == RematchPermutations[Len(seeding)]
    IN \E k \in 1..Len(arrangements) :
           DerivedPairs(si, Rearranged(seeding, arrangements[k])) \cap consumed = {}

\* C2: after sort_no_rematches on distinct resolved competitors with the
\* sequential or the cross strategy, when some permutation of the seeding is
\* free of rematches, the call returns the seeding and the pairs the strategy
\* derives from it hold no pair, in either orientation, of a consumed result.
C2_NoRematchAfterSearch ==
    (/\ op[1] = "sort_no_rematches"
     /\ DistinctResolved(op[4])
     /\ SomeRematchFree(op[2], op[4]))
        => /\ op[3] = "self"
           /\ DerivedPairs(op[2], seeding_) \cap ConsumedPairs = {}

\* the search moved a seeding of four teams under the cross strategy
C2_Witness ==
    /\ op[1] = "sort_no_rematches" /\ op[2] = "reversed" /\ op[3] = "self"
    /\ Len(seeding_) = 4 /\ DistinctResolved(seeding_)
    /\ seeding_ # op[5]
    /\ DerivedPairs(op[2], seeding_) \cap ConsumedPairs = {}

\* permutation q comes before permutation p in the lexicographic order
LexLess(q, p) ==
    \E i \in 1..Len(p) : q[i] < p[i] /\ \A j \in 1..(i - 1) : q[j] = p[j]

\* the arrangement of the seeding by permutation q is free of rematches
RematchFree(si, seeding, q) ==
    DerivedPairs(si, Rearranged(seeding, q)) \cap ConsumedPairs = {}

\* C15: a sort_no_rematches that returns the seeding has applied, to the
\* order the search started from, a rematch-free permutation of the slot
\* positions 0..N-1 such that every permutation before it in the
\* lexicographic order has a rematch; when no sort criteria were given and
\* the order of the call is rematch-free, the seeding is unchanged.
C15_FirstRematchFreePermutation ==
    (/\ op[1] = "sort_no_rematches" /\ op[3] = "self"
     /\ Cardinality(Range(op[5])) = Len(op[5]))
    => LET n == Len(op[5])
           perms == Range(RematchPermutations[n])
       IN /\ \A q \in perms : Range(q) = 0..(n - 1)
          /\ Cardinality(perms) = Len(RematchPermutations[n])
          /\ \E p \in perms :
                 /\ seeding_ = Rearranged(op[5], p)
                 /\ RematchFree(op[2], op[5], p)
                 /\ \A q \in perms : LexLess(q, p) => ~RematchFree(op[2], op[5], q)
          /\ (op[6] /\ RematchFree(op[2], op[4], [i \in 1..n |-> i - 1]))
                 => seeding_ = op[4]

\* the search on four teams kept the first slot and changed the second: the
\* identity and the permutation after it had a rematch
C15_Witness ==
    /\ op[1] = "sort_no_rematches" /\ op[3] = "self"
    /\ Len(seeding_) = 4 /\ DistinctResolved(op[5])
    /\ seeding_[1] = op[5][1] /\ seeding_[2] = op[5][3]
    /\ ~RematchFree(op[2], op[5], <<0, 1, 3, 2>>)

\* C7 as stated: a search that finds no rematch-free permutation returns
\* None and leaves the seeding at the last permutation generated.
C7_Original ==
    (op[1] = "sort_no_rematches" /\ op[3] = "None")
        => seeding_ = Rearranged(op[5],
               RematchPermutations[Len(op[5])][Len(RematchPermutations[Len(op[5])])])

\* C7 amended: a search over distinct resolved competitors none of whose
\* permutations is rematch-free returns None (it does not raise), and a
\* search that returns None leaves the seeding as it was when the search
\* started (as the optional initial sort left it).
C7_ExhaustedLeavesSeeding ==
    op[1] = "sort_no_rematches" =>
        /\ (DistinctResolved(op[4]) /\ ~SomeRematchFree(op[2], op[4]))
               => op[3] = "None"
        /\ op[3] = "None" => seeding_ = op[5]

\* every arrangement of four distinct teams pairs two teams that have played
C7_Witness ==
    /\ op[1] = "sort_no_rematches" /\ op[3] = "None"
    /\ Len(seeding_) = 4 /\ DistinctResolved(seeding_)
    /\ op[5] # op[4]

-----------------------------------------------------------------------------
(* Differentials (value of the four tracks) and Matchup.                   *)

\* Differentials(tc): four tracks of zeros, one slot per registered team
DifferentialsInit(c) ==
    LET zeros == [i \in 1..Len(c.teams) |-> 0]
    IN [rgd |-> zeros, vgd |-> zeros, rsd |-> zeros, vsd |-> zeros]

\* an add_raw that added the margins of the side ahead and dropped the
\* margins of the side behind
AddRawGainsOnly(c, d, team, diffs) ==
    LET i == DcGetTeamIndex(DiffIndexes(c.teams, 1), <<"team", team>>)
        gain(x) == IF x > 0 THEN x ELSE 0
    IN [rgd |-> [d.rgd EXCEPT ![i] = @ + gain(diffs[1])],
        vgd |-> [d.vgd EXCEPT ![i] = @ + gain(diffs[2])],
        rsd |-> [d.rsd EXCEPT ![i] = @ + diffs[3]],
        vsd |-> [d.vsd EXCEPT ![i] = @ + diffs[4]]]

\* an add_raw that wrote the primary tracks only
AddRawPrimaryOnly(c, d, team, diffs) ==
    LET i == DcGetTeamIndex(DiffIndexes(c.teams, 1), <<"team", team>>)
    IN [d EXCEPT !.rgd[i] = @ + diffs[1], !.rsd[i] = @ + diffs[3]]

\* Differentials.add_raw for a Team object
AddRaw(c, d, team, diffs) ==
    LET i == DcGetTeamIndex(DiffIndexes(c.teams, 1), <<"team", team>>)
    IN [rgd |-> [d.rgd EXCEPT ![i] = @ + diffs[1]],
        vgd |-> [d.vgd EXCEPT ![i] = @ + diffs[2]],
        rsd |-> [d.rsd EXCEPT ![i] = @ + diffs[3]],
        vsd |-> [d.vsd EXCEPT ![i] = @ + diffs[4]]]

\* a Result(team_1, team_2) that named team_1 the winner
ResultOfGuess(team_1, team_2) ==
    [team_1 |-> team_1, team_2 |-> team_2,
     rscore_1 |-> <<>>, rscore_2 |-> <<>>, vscore_1 |-> <<>>, vscore_2 |-> <<>>,
     rwin_1 |-> <<>>, rwin_2 |-> <<>>, vwin_1 |-> <<>>, vwin_2 |-> <<>>,
     is_winner_1 |-> <<>>, is_winner_2 |-> <<>>,
     winner |-> team_1, loser |-> team_2,
     winner_rscore |-> <<>>, loser_rscore |-> <<>>, df |-> <<>>, idf |-> <<>>]

\* Matchup.Result(team_1, team_2): every other field is None
ResultOf(team_1, team_2) ==
    [team_1 |-> team_1, team_2 |-> team_2,
     rscore_1 |-> <<>>, rscore_2 |-> <<>>, vscore_1 |-> <<>>, vscore_2 |-> <<>>,
     rwin_1 |-> <<>>, rwin_2 |-> <<>>, vwin_1 |-> <<>>, vwin_2 |-> <<>>,
     is_winner_1 |-> <<>>, is_winner_2 |-> <<>>,
     winner |-> None, loser |-> None,
     winner_rscore |-> <<>>, loser_rscore |-> <<>>, df |-> <<>>, idf |-> <<>>]

\* the data of a series: (rscore, vscore, rwin, vwin) of each side
SeriesData(series) ==
    << <<series.rscore_1, series.vscore_1, series.rwin_1, series.vwin_1>>,
       <<series.rscore_2, series.vscore_2, series.rwin_2, series.vwin_2>> >>

\* a variant of Oriented that takes the data in the registered orientation
OrientedAsRegistered(series, team_1) == SeriesData(series)

\* line 470: the data of team_1 first, whichever side of the series it is
Oriented(series, team_1) ==
    IF series.team_1 = team_1 THEN SeriesData(series)
    ELSE Reversed2(SeriesData(series))

\* line 505: (winner, loser, winner_rscore, loser_rscore)
Outcome(team_1, team_2, t1_rs, t2_rs) ==
    IF t1_rs > t2_rs THEN <<team_1, team_2, t1_rs, t2_rs>>
    ELSE <<team_2, team_1, t2_rs, t1_rs>>

\* lines 466-508 of Matchup.calculate: the series got.ret was found and o is
\* its data, the data of team_1 first
MatchupPlayed(c, team_1, team_2, dfo, got, o) ==
    LET t1 == o[1]
        t2 == o[2]
        t1_diffs == <<t1[1] - t2[1], t1[2] - t2[2],
                      IF t1[3] THEN 1 ELSE -1, IF t1[4] THEN 1 ELSE -1>>
        t2_diffs == <<t2[1] - t1[1], t2[2] - t1[2],
                      IF t2[3] THEN 1 ELSE -1, IF t2[4] THEN 1 ELSE -1>>
        raw(d) == AddRaw(c, AddRaw(c, d, team_1, t1_diffs), team_2, t2_diffs)
        wl == Outcome(team_1, team_2, t1[1], t2[1])
    IN [result |->
           [team_1 |-> team_1, team_2 |-> team_2,
            rscore_1 |-> <<t1[1]>>, rscore_2 |-> <<t2[1]>>,
            vscore_1 |-> <<t1[2]>>, vscore_2 |-> <<t2[2]>>,
            rwin_1 |-> <<t1[3]>>, rwin_2 |-> <<t2[3]>>,
            vwin_1 |-> <<t1[4]>>, vwin_2 |-> <<t2[4]>>,
            is_winner_1 |-> <<t1[1] > t2[1]>>,
            is_winner_2 |-> <<t1[1] < t2[1]>>,
            winner |-> wl[1], loser |-> wl[2],
            winner_rscore |-> <<wl[3]>>, loser_rscore |-> <<wl[4]>>,
            df |-> IF dfo = <<>> THEN <<>> ELSE <<"df">>,
            idf |-> <<raw(DifferentialsInit(c))>>],
        series |-> got.series,
        df |-> IF dfo = <<>> THEN <<>> ELSE <<raw(dfo[1])>>,
        taken |-> got.ret]

\* lines 457-509 of Matchup.calculate: got is what sc[team_1, team_2] returned
MatchupFound(c, team_1, team_2, dfo, got) ==
    IF got.ret.sid = 0
    THEN [result |-> ResultOf(team_1, team_2), series |-> got.series,
          df |-> dfo, taken |-> NoSeries]
    ELSE CHOOSE y \in {MatchupPlayed(c, team_1, team_2, dfo, got, o) :
                          o \in {Oriented(got.ret, team_1)}} : TRUE

\* Matchup.calculate for the resolved teams; dfo is <<>> when no df is passed:
\* [result, series |-> the buckets after, df |-> dfo after, taken |-> the
\* series consumed].  A local variable of the code is a variable bound over
\* the one-element set of its value, which is then computed once.
MatchupCalculate(c, sc, team_1, team_2, dfo) ==
    IF team_1 = None \/ team_2 = None
    THEN [result |-> ResultOf(team_1, team_2), series |-> sc.series, df |-> dfo,
          taken |-> NoSeries]
    ELSE CHOOSE y \in {MatchupFound(c, team_1, team_2, dfo, got) :
                          got \in {GetSeries(c, sc, <<"team", team_1>>,
                                             <<"team", team_2>>)}} : TRUE

-----------------------------------------------------------------------------
(* SpecMatchup: one recorded series, resolved by free-standing matchups.   *)

OptBool == {<<>>, <<TRUE>>, <<FALSE>>}
OptScore == {<<>>} \cup {<<v>> : v \in 0..MaxScore}

\* Differentials(tc, *dv): four tracks, each slot at the default of its track
DifferentialsWith(c, dv) ==
    [rgd |-> [i \in 1..Len(c.teams) |-> dv[1]], vgd |-> [i \in 1..Len(c.teams) |-> dv[2]],
     rsd |-> [i \in 1..Len(c.teams) |-> dv[3]], vsd |-> [i \in 1..Len(c.teams) |-> dv[4]]]

\* the default values the shared df is built with
SharedDefaults == {<<0, 0, 0, 0>>, <<1, 0, 2, -1>>}

InitMatchup ==
    /\ tc = TeamContainerOf(NumTeams)
    /\ df \in {DifferentialsWith(tc, dv) : dv \in SharedDefaults}
    /\ mres = ResultOf(None, None)
    /\ op = <<"init">>
    /\ IdleLog /\ IdleSeeding /\ IdlePairs /\ IdleTracks /\ IdleBracket

idleMatchup == <<tc, histVars, seeding_, pairVars, trackVars, bracketVars>>

\* sc.register(Series(t1, t2, r1, r2, rw1, rw2, vs1, vs2, vw1, vw2)), once
MatchupRegister ==
    /\ sc_series = <<>>
    /\ \E t1 \in TeamIds(tc), t2 \in TeamIds(tc), r1 \in 0..MaxScore, r2 \in 0..MaxScore,
          rw1 \in OptBool, rw2 \in OptBool, vs1 \in OptScore, vs2 \in OptScore,
          vw1 \in OptBool, vw2 \in OptBool :
           /\ t1 # t2
           /\ LET a == [team_1 |-> t1, team_2 |-> t2, rscore_1 |-> r1, rscore_2 |-> r2,
                        rwin_1 |-> rw1, rwin_2 |-> rw2, vscore_1 |-> vs1,
                        vscore_2 |-> vs2, vwin_1 |-> vw1, vwin_2 |-> vw2]
                  sc == RegisterOp(SC, SeriesInit(1, a))
              IN sc_indexes' = sc.indexes /\ sc_series' = sc.series
    /\ op' = <<"register">>
    /\ UNCHANGED <<mres, df, idleMatchup>>

\* Matchup(team_1, team_2).calculate(tc, sc[, df]) once the series is
\* recorded, until a call finds no series: op records the series consumed,
\* the arguments, and the df and the log as they were before the call
MatchupResolve ==
    /\ sc_series # <<>>
    /\ op[1] = "calculate" => op[2].sid # 0
    /\ \E team_1 \in TeamIds(tc) \cup {None}, team_2 \in TeamIds(tc) \cup {None},
          withDf \in BOOLEAN :
        LET r == MatchupCalculate(tc, SC, team_1, team_2,
                                  IF withDf THEN <<df>> ELSE <<>>)
        IN /\ mres' = r.result
           /\ sc_series' = r.series
           /\ df' = IF withDf THEN r.df[1] ELSE df
           /\ op' = <<"calculate", r.taken, team_1, team_2, withDf, df, sc_series>>
           /\ UNCHANGED <<sc_indexes, idleMatchup>>

NextMatchup == MatchupRegister \/ MatchupResolve

SpecMatchup == InitMatchup /\ [][NextMatchup]_vars

\* C3: when a matchup's calculate consumes a series, the winner of the
\* result is the team with the strictly greater primary score and the loser
\* is the other team, whatever the secondary scores and the win flags are.
C3_WinnerByPrimaryScore ==
    (op[1] = "calculate" /\ op[2].sid # 0) =>
        /\ op[2].rscore_1 > op[2].rscore_2
               => mres.winner = op[2].team_1 /\ mres.loser = op[2].team_2
        /\ op[2].rscore_1 < op[2].rscore_2
               => mres.winner = op[2].team_2 /\ mres.loser = op[2].team_1

\* the matchup named the teams in the other order than the series, whose
\* secondary score and secondary win flag favour the loser
C3_Witness ==
    /\ op[1] = "calculate" /\ op[2].sid # 0
    /\ op[3] = op[2].team_2
    /\ op[2].rscore_1 > op[2].rscore_2
    /\ op[2].vscore_1 < op[2].vscore_2 /\ op[2].vwin_2
    /\ mres.winner = op[2].team_1 /\ mres.loser = op[2].team_2

\* C4 as stated: when the consumed series has equal primary scores, the
\* winner and the loser of the result are both None.
C4_TieUnresolved ==
    (op[1] = "calculate" /\ op[2].sid # 0 /\ op[2].rscore_1 = op[2].rscore_2)
        => mres.winner = None /\ mres.loser = None

-----------------------------------------------------------------------------
(* Differentials.combine, MatchSet and BracketModel.                       *)

\* the identifiers that "outside_diff._indexes.items()" lists for one index
IdentifiersOf(indexes, index) ==
    LET items == SelectSeq(indexes, LAMBDA e : e[2] = index)
    IN [i \in 1..Len(items) |-> items[i][1]]

\* a combine that took the last known identifier of a competitor
RECURSIVE LastKnown(_, _)
LastKnown(inside_indexes, identifiers) ==
    IF identifiers = <<>> THEN <<>>
    ELSE IF DictHas(inside_indexes, identifiers[Len(identifiers)])
         THEN <<identifiers[Len(identifiers)]>>
         ELSE LastKnown(inside_indexes, SubSeq(identifiers, 1, Len(identifiers) - 1))

\* lines 77-81: the first of the identifiers that the inside track knows
RECURSIVE FirstKnown(_, _)
FirstKnown(inside_indexes, identifiers) ==
    IF identifiers = <<>> THEN <<>>
    ELSE IF DictHas(inside_indexes, identifiers[1]) THEN <<identifiers[1]>>
         ELSE FirstKnown(inside_indexes, Tail(identifiers))

\* a combine without the break of line 81: one addition per known identifier
RECURSIVE AddPerKey(_, _, _, _)
AddPerKey(inside, inside_indexes, identifiers, v) ==
    IF identifiers = <<>> THEN inside
    ELSE AddPerKey(IF DictHas(inside_indexes, identifiers[1])
                   THEN [inside EXCEPT ![DictGet(inside_indexes, identifiers[1])] =
                                           @ + v]
                   ELSE inside,
                   inside_indexes, Tail(identifiers), v)

RECURSIVE CombineTrackPerKey(_, _, _, _, _)
CombineTrackPerKey(inside, inside_indexes, outside, outside_indexes, index) ==
    IF index > Len(outside) THEN inside
    ELSE CombineTrackPerKey(
             AddPerKey(inside, inside_indexes,
                       IdentifiersOf(outside_indexes, index), outside[index]),
             inside_indexes, outside, outside_indexes, index + 1)

\* lines 68-81 for one pair of tracks: every index of the outside track whose
\* value is not 0 is added to the inside track under its first known identifier
RECURSIVE CombineTrack(_, _, _, _, _)
CombineTrack(inside, inside_indexes, outside, outside_indexes, index) ==
    IF index > Len(outside) THEN inside
    ELSE LET known == FirstKnown(inside_indexes,
                                 IdentifiersOf(outside_indexes, index))
             added == IF outside[index] = 0 \/ known = <<>> THEN inside
                      ELSE [inside EXCEPT ![DictGet(inside_indexes, known[1])] =
                                              @ + outside[index]]
         IN CombineTrack(added, inside_indexes, outside, outside_indexes, index + 1)

\* Differentials.combine(*dfs), all built on the registry c
RECURSIVE Combine(_, _, _)
Combine(c, inside, dfs) ==
    IF dfs = <<>> THEN inside
    ELSE LET ix == DiffIndexes(c.teams, 1)
             o == dfs[1]
         IN Combine(c,
                [rgd |-> CombineTrack(inside.rgd, ix, o.rgd, ix, 1),
                 vgd |-> CombineTrack(inside.vgd, ix, o.vgd, ix, 1),
                 rsd |-> CombineTrack(inside.rsd, ix, o.rsd, ix, 1),
                 vsd |-> CombineTrack(inside.vsd, ix, o.vsd, ix, 1)],
                Tail(dfs))

\* lines 606-609: the matchups of a match set calculated in order, each on
\* the log and the df the one before left
RECURSIVE MatchupResults(_, _, _, _, _)
MatchupResults(c, sc, team_matchups, dfo, done) ==
    IF team_matchups = <<>> THEN [results |-> done, series |-> sc.series, df |-> dfo]
    ELSE CHOOSE y \in
             {MatchupResults(c, [indexes |-> sc.indexes, series |-> r.series],
                             Tail(team_matchups), r.df, Append(done, r.result)) :
                  r \in {MatchupCalculate(c, sc, team_matchups[1][1],
                                          team_matchups[1][2], dfo)}} : TRUE

\* lines 611-627 of MatchSet.calculate on the matchup results m
MatchSetResult(c, m, dfo) ==
    LET played == SelectSeq(m.results, LAMBDA x : x.idf # <<>>)
        idf == Combine(c, DifferentialsInit(c),
                       [i \in 1..Len(played) |-> played[i].idf[1]])
    IN [result |->
           [results |-> m.results,
            winners |-> SeedingSet(c, [i \in 1..Len(m.results) |-> m.results[i].winner]),
            losers |-> SeedingSet(c, [i \in 1..Len(m.results) |-> m.results[i].loser]),
            idf |-> idf,
            df |-> IF dfo = <<>> THEN <<>> ELSE <<"df">>],
        series |-> m.series, df |-> m.df]

\* MatchSet.calculate for the seeding its fetcher returned
MatchSetCalculate(c, sc, seeding, si, dfo) ==
    CHOOSE y \in {MatchSetResult(c, m, dfo) :
                     m \in {MatchupResults(c, sc, Interpret(si, seeding), dfo, <<>>)}} :
        TRUE

\* Seeding.__getitem__: None beyond the end of the list
SeedingGetItem(seeding, k) == IF Len(seeding) > k THEN seeding[k + 1] ELSE None

\* a variant of Undetermined that examines every winners slot of a round
UndeterminedAnySlot(result) ==
    IF "winners" \in DOMAIN result
    THEN \E i \in 0..Len(result.results) : SeedingGetItem(result.winners, i) = None
    ELSE result.winner = None

\* line 695: the winner of a Matchup.Result, winners[0] of a MatchSet.Result
Undetermined(result) ==
    IF "winners" \in DOMAIN result THEN SeedingGetItem(result.winners, 0) = None
    ELSE result.winner = None

\* The bracket under test, a stepladder of three teams: a = Matchup(T1, T2),
\* b = Matchup(lambda: a.loser(), T3) and r = MatchSet(lambda: Seeding(tc)
\* .set(a.winner(), T3, b.winner(), a.loser()), SeedingInterpreter.standard),
\* which pairs (a.winner, b.winner) and (T3, a.loser).  nodes holds result_
\* of the Matchup objects a and b, which Matchup.winner and Matchup.loser read.
BracketTeams == <<1, 2, 3>>
BracketKeys == {"a", "b", "r"}

NodeCalculate(c, sc, k, nodes, dfo) ==
    CASE k = "a" -> MatchupCalculate(c, sc, BracketTeams[1], BracketTeams[2], dfo)
      [] k = "b" -> MatchupCalculate(c, sc, nodes["a"].loser, BracketTeams[3], dfo)
      [] k = "r" -> MatchSetCalculate(c, sc,
                        SeedingSet(c, <<nodes["a"].winner, BracketTeams[3],
                                        nodes["b"].winner, nodes["a"].loser>>),
                        "standard", dfo)

\* a variant of CalculateOrder that calculates the matchups before the round
CalculateOrderLeavesFirst(order) ==
    SelectSeq(order, LAMBDA k : k # "r") \o SelectSeq(order, LAMBDA k : k = "r")

\* line 693: "for k, v in self._matchups.items()", the insertion order
CalculateOrder(order) == order

\* lines 694-696: the outcome r of node k is recorded
CalculateStep(st, k, r) ==
    [series |-> r.series, df |-> r.df[1],
     nodes |-> IF k \in DOMAIN st.nodes THEN [st.nodes EXCEPT ![k] = r.result]
               ELSE st.nodes,
     results |-> DictSet(st.results, k, r.result),
     complete |-> IF Undetermined(r.result) THEN FALSE ELSE st.complete]

\* lines 693-696 for the keys of order, one after the other, on the state
\* st = [series, df, nodes, results, complete]
RECURSIVE CalculateLoop(_, _, _, _)
CalculateLoop(c, indexes, st, order) ==
    IF order = <<>> THEN st
    ELSE CHOOSE y \in
             {CalculateLoop(c, indexes, CalculateStep(st, order[1], r), Tail(order)) :
                  r \in {NodeCalculate(c, [indexes |-> indexes, series |-> st.series],
                                       order[1], st.nodes, <<st.df>>)}} : TRUE

\* BracketModel.calculate on the state st with the nodes registered in order
BracketCalculate(c, indexes, st, order) ==
    CalculateLoop(c, indexes, [st EXCEPT !.complete = TRUE], CalculateOrder(order))

-----------------------------------------------------------------------------
(* SpecBracket: nodes registered in any order, results recorded in         *)
(* batches, and recomputes of the whole bracket.                           *)

InitBracket ==
    /\ tc = TeamContainerOf(Len(BracketTeams))
    /\ df = DifferentialsInit(tc)
    /\ matchups = <<>>
    /\ node_result = [k \in {"a", "b"} |-> ResultOf(None, None)]
    /\ results = <<>>
    /\ complete = FALSE
    /\ op = <<"init">>
    /\ IdleLog /\ IdleSeeding /\ IdlePairs /\ IdleTracks /\ IdleMatchup

idleBracket == <<tc, histVars, seeding_, pairVars, trackVars, mres>>

\* bm.next(k, node) for a node of the bracket not registered yet; the nodes
\* are registered before the first result
BracketNext ==
    /\ op[1] \in {"init", "next"}
    /\ \E k \in BracketKeys \ Range(matchups) :
           /\ matchups' = Append(matchups, k)
           /\ op' = <<"next", k>>
    /\ UNCHANGED <<logVars, node_result, results, complete, df, idleBracket>>

\* sc.register(Series(t1, t2, r1, r2)) with a winner; the results of a batch
\* are registered in the order of their pairs, and a run ends with the
\* calculate that follows a calculate
BracketRegister ==
    /\ NumRegistered < MaxResults
    /\ op[1] = "calculate" => op[6] = 1
    /\ \E t1 \in Range(BracketTeams), t2 \in Range(BracketTeams),
          score \in {<<1, 0>>, <<0, 1>>} :
           /\ t1 < t2
           /\ op[1] = "register" =>
                  op[2] < t1 \/ (op[2] = t1 /\ op[3] < t2)
           /\ LET sc == RegisterOp(SC, SeriesInit(NumRegistered + 1,
                                       PlainArgs(t1, t2, score[1], score[2])))
              IN sc_indexes' = sc.indexes /\ sc_series' = sc.series
           /\ op' = <<"register", t1, t2>>
    /\ UNCHANGED <<matchups, node_result, results, complete, df, idleBracket>>

\* bm.calculate(sg, tc, sc, df), at most twice in a row: op records the log,
\* the df, the results of the Matchup objects and the outcomes as they were
\* before the call, the number of calls in a row, and the flag before
BracketRecompute ==
    /\ op[1] = "calculate" => op[6] = 1
    /\ LET st == BracketCalculate(tc, sc_indexes,
                  [series |-> sc_series, df |-> df, nodes |-> node_result,
                   results |-> results, complete |-> complete], matchups)
       IN /\ sc_series' = st.series
          /\ df' = st.df
          /\ node_result' = st.nodes
          /\ results' = st.results
          /\ complete' = st.complete
          /\ op' = <<"calculate", sc_series, df, node_result, results,
                      IF op[1] = "calculate" THEN 2 ELSE 1, complete>>
          /\ UNCHANGED <<sc_indexes, matchups, idleBracket>>

NextBracket == BracketNext \/ BracketRegister \/ BracketRecompute

SpecBracket == InitBracket /\ [][NextBracket]_vars

\* the outcome recorded for key k has a determined winner
HasDeterminedWinner(k) ==
    LET outcome == DictGet(results, k)
    IN IF k = "r" THEN Len(outcome.winners) > 0 /\ outcome.winners[1] # None
       ELSE outcome.winner # None

\* C5: after every calculate of the bracket an outcome is recorded for every
\* registered node, and complete is true if and only if each of them has a
\* determined winner: a winner that is not None for a matchup, a first
\* winners slot that is not None for a match set, whatever its later slots.
C5_CompleteIffAllDetermined ==
    op[1] = "calculate" =>
        /\ \A k \in Range(matchups) : DictHas(results, k)
        /\ complete <=> \A k \in Range(matchups) : HasDeterminedWinner(k)

\* the three nodes are registered and the bracket is complete although the
\* second winners slot of the round is None
C5_Witness ==
    /\ op[1] = "calculate" /\ complete
    /\ Range(matchups) = BracketKeys
    /\ DictGet(results, "r").winners[2] = None

PositionOf(k) == CHOOSE i \in 1..Len(matchups) : matchups[i] = k

\* the result of Matchup node k that the closures of node n read during the
\* last calculate, according to the order of registration
ReadBy(n, k) ==
    IF k \in Range(matchups) /\ PositionOf(k) < PositionOf(n)
    THEN DictGet(results, k) ELSE op[4][k]

\* C6 amended: calculate resolves the nodes once, in registration order;
\* the closure of a node reads the outcome that this calculate recorded for a
\* node registered earlier, and the outcome the previous calculate left
\* (the empty outcome before the first) for a node registered later or not
\* registered.  Here: matchup b is played by the loser of a so read, and the
\* round pairs the winners of a and b, and T3 and the loser of a, so read.
C6_ClosuresReadInRegistrationOrder ==
    op[1] = "calculate" =>
        /\ "b" \in Range(matchups) =>
               /\ DictGet(results, "b").team_1 = ReadBy("b", "a").loser
               /\ DictGet(results, "b").team_2 = BracketTeams[3]
        /\ "r" \in Range(matchups) =>
               LET round == DictGet(results, "r").results
               IN /\ Len(round) = 2
                  /\ <<round[1].team_1, round[1].team_2>>
                         = <<ReadBy("r", "a").winner, ReadBy("r", "b").winner>>
                  /\ <<round[2].team_1, round[2].team_2>>
                         = <<BracketTeams[3], ReadBy("r", "a").loser>>

\* matchup b was registered before matchup a and was played by the loser that
\* the previous calculate left in a, not the one this calculate recorded
C6_Witness ==
    /\ op[1] = "calculate"
    /\ "b" \in Range(matchups) /\ "a" \in Range(matchups)
    /\ PositionOf("b") < PositionOf("a")
    /\ op[4]["a"].loser # None
    /\ DictGet(results, "b").team_1 = op[4]["a"].loser
    /\ DictGet(results, "b").winner # None
    /\ DictGet(results, "a").loser # op[4]["a"].loser

\* the arrangements of a list of distinct keys
Arrangements(order) ==
    {p \in [1..Len(order) -> Range(order)] : Range(p) = Range(order)}

\* C6 as stated: the outcomes and the complete flag that one calculate
\* records are those it would have recorded had the nodes been registered in
\* any other order.
C6_Original ==
    op[1] = "calculate" =>
        \A p \in Arrangements(matchups) :
            LET st == BracketCalculate(tc, sc_indexes,
                          [series |-> op[2], df |-> op[3], nodes |-> op[4],
                           results |-> op[5], complete |-> FALSE], p)
            IN /\ st.complete = complete
               /\ \A k \in Range(matchups) :
                      DictGet(st.results, k) = DictGet(results, k)

-----------------------------------------------------------------------------
(* SpecTrack: DifferentialContainer objects and the lists they refer to.   *)
(* heap holds the int lists; conts[i].vals is the list that _values of     *)
(* container i refers to, conts[i].indexes the dict _indexes refers to.    *)

\* DifferentialContainer.__getitem__ on every slot: the values of container i
ValuesOf(h, cs, i) == h[cs[i].vals]

\* DifferentialContainer.__setitem__: a write into the list _values refers to
SetItem(h, cs, i, index, v) == [h EXCEPT ![cs[i].vals][index] = v]

\* DifferentialContainer.copy(): the new object is built on self._values,
\* the very list of the source, and on self._indexes
CopyOp(h, cs, i) ==
    [heap |-> h,
     conts |-> Append(cs, [vals |-> cs[i].vals, indexes |-> cs[i].indexes,
                           src |-> i, how |-> "copy"])]

\* a copy(default_value) that kept the list of its source
CopyDefaultShares(h, cs, i, default_value) ==
    [heap |-> h,
     conts |-> Append(cs, [vals |-> cs[i].vals, indexes |-> cs[i].indexes,
                           src |-> i, how |-> "default"])]

\* DifferentialContainer.copy(default_value): a new list of default_value
CopyDefaultOp(h, cs, i, default_value) ==
    [heap |-> Append(h, [j \in 1..Len(h[cs[i].vals]) |-> default_value]),
     conts |-> Append(cs, [vals |-> Len(h) + 1, indexes |-> cs[i].indexes,
                           src |-> i, how |-> "default"])]

\* DifferentialContainer.reset(default_value): _values is bound to a new list
ResetOp(h, cs, i, default_value) ==
    [heap |-> Append(h, [j \in 1..Len(h[cs[i].vals]) |-> default_value]),
     conts |-> [cs EXCEPT ![i].vals = Len(h) + 1]]

\* the values of every container, as a caller reads them
AllValues == [i \in 1..Len(conts) |-> ValuesOf(heap, conts, i)]

InitTrack ==
    /\ tc = TeamContainerOf(NumTeams)
    /\ heap = << [j \in 1..NumTeams |-> 0] >>
    /\ conts = << [vals |-> 1, indexes |-> 1, src |-> 0, how |-> "init"] >>
    /\ dobjs = <<>>
    /\ op = <<"init">>
    /\ IdleLog /\ IdleSeeding /\ IdlePairs /\ IdleMatchup /\ IdleBracket /\ IdleDf

idleTrack == <<tc, logVars, histVars, seeding_, pairVars, dobjs, mres, bracketVars,
              df>>

\* container[k] = v: op records the container and the values before
TrackSetItem ==
    /\ \E i \in 1..Len(conts), k \in Identifiers(tc), v \in 0..MaxVal :
           /\ heap' = SetItem(heap, conts, i,
                              DcGetTeamIndex(DiffIndexes(tc.teams, 1), k), v)
           /\ op' = <<"set", i, AllValues>>
    /\ UNCHANGED <<conts, idleTrack>>

\* container.copy()
TrackCopy ==
    /\ Len(conts) <= MaxConts
    /\ \E i \in 1..Len(conts) :
           LET r == CopyOp(heap, conts, i)
           IN /\ heap' = r.heap /\ conts' = r.conts
              /\ op' = <<"copy", i, AllValues>>
    /\ UNCHANGED idleTrack

\* container.copy(default_value)
TrackCopyDefault ==
    /\ Len(conts) <= MaxConts /\ Len(heap) <= MaxConts
    /\ \E i \in 1..Len(conts), default_value \in 0..MaxVal :
           LET r == CopyDefaultOp(heap, conts, i, default_value)
           IN /\ heap' = r.heap /\ conts' = r.conts
              /\ op' = <<"copy_default", i, AllValues, default_value>>
    /\ UNCHANGED idleTrack

\* container.reset(default_value)
TrackReset ==
    /\ Len(heap) <= MaxConts
    /\ \E i \in 1..Len(conts), default_value \in 0..MaxVal :
           LET r == ResetOp(heap, conts, i, default_value)
           IN /\ heap' = r.heap /\ conts' = r.conts
              /\ op' = <<"reset", i, AllValues>>
    /\ UNCHANGED idleTrack

NextTrack == TrackSetItem \/ TrackCopy \/ TrackCopyDefault \/ TrackReset

SpecTrack == InitTrack /\ [][NextTrack]_vars

\* container j was made by copy() of container i, or i by copy() of j
PlainCopies(i, j) ==
    \/ conts[j].how = "copy" /\ conts[j].src = i
    \/ conts[i].how = "copy" /\ conts[i].src = j

\* C10 as stated: a copy made without a default holds the values of its
\* source at copy time, and afterwards a write to the copy or to the source
\* leaves the values of the other unchanged; a copy made with default d has
\* every slot equal to d, the identifier index of its source, and leaves the
\* values of the source unchanged.
C10_CopyIsIndependent ==
    /\ op[1] = "copy" =>
           /\ ValuesOf(heap, conts, Len(conts)) = op[3][op[2]]
           /\ ValuesOf(heap, conts, op[2]) = op[3][op[2]]
    /\ op[1] = "set" =>
           \A j \in 1..Len(conts) :
               PlainCopies(op[2], j) => ValuesOf(heap, conts, j) = op[3][j]
    /\ op[1] = "copy_default" =>
           /\ \A s \in 1..NumTeams : ValuesOf(heap, conts, Len(conts))[s] = op[4]
           /\ conts[Len(conts)].indexes = conts[op[2]].indexes
           /\ ValuesOf(heap, conts, op[2]) = op[3][op[2]]

-----------------------------------------------------------------------------
(* SpecDiff: two Differentials objects, the source S (dobjs[1], built on   *)
(* the registry) and the target T (dobjs[2], built on a registry of its    *)
(* own), under add_raw calls on S and one T.combine(S).                    *)

\* add_raw calls in one run
MaxAdds == 2

\* the four tracks in the order add_raw and combine go through them
Tracks == <<"rgd", "vgd", "rsd", "vsd">>

\* Differentials.__init__ (lines 35-49): rgd on a new list of rgd_dv and a
\* new identifier index, the other three tracks by rgd.copy(dv)
DifferentialsNew(h, cs, ds, teams, dv) ==
    LET rgd == Len(cs) + 1
        r1 == [heap |-> Append(h, [j \in 1..Len(teams) |-> dv[1]]),
               conts |-> Append(cs, [vals |-> Len(h) + 1, indexes |-> Len(ds) + 1,
                                     src |-> 0, how |-> "init"])]
        r2 == CopyDefaultOp(r1.heap, r1.conts, rgd, dv[2])
        r3 == CopyDefaultOp(r2.heap, r2.conts, rgd, dv[3])
        r4 == CopyDefaultOp(r3.heap, r3.conts, rgd, dv[4])
    IN [heap |-> r4.heap, conts |-> r4.conts,
        dobjs |-> Append(ds, [indexes |-> DiffIndexes(teams, 1), rgd |-> rgd,
                              vgd |-> rgd + 1, rsd |-> rgd + 2, vsd |-> rgd + 3])]

\* Differentials.add_raw from its j-th statement on: "track[identifier] += d"
\* reads the slot (KeyError for an identifier the index does not hold, which
\* ends the call) and writes it back increased
RECURSIVE AddRawFrom(_, _, _, _, _, _)
AddRawFrom(h, cs, d, k, deltas, j) ==
    IF j > Len(Tracks) THEN [heap |-> h, raised |-> FALSE]
    ELSE IF ~DictHas(d.indexes, IF k[1] = "team" THEN <<"id", k[2]>> ELSE k)
         THEN [heap |-> h, raised |-> TRUE]
         ELSE AddRawFrom(SetItem(h, cs, d[Tracks[j]], DcGetTeamIndex(d.indexes, k),
                                 ValuesOf(h, cs, d[Tracks[j]])
                                     [DcGetTeamIndex(d.indexes, k)] + deltas[j]),
                         cs, d, k, deltas, j + 1)

\* inside.combine(outside) from its j-th pair of tracks on
RECURSIVE CombineFrom(_, _, _, _, _)
CombineFrom(h, cs, inside, outside, j) ==
    IF j > Len(Tracks) THEN h
    ELSE CombineFrom(
             [h EXCEPT ![cs[inside[Tracks[j]]].vals] =
                  CombineTrack(@, inside.indexes,
                               ValuesOf(h, cs, outside[Tracks[j]]),
                               outside.indexes, 1)],
             cs, inside, outside, j + 1)

\* the team lists the target is built on: the registry itself, the registry
\* in reverse order, without its first team, with its first team under
\* another name, and with the name and the alias of its first team held by
\* two different teams
TargetTeams(c) ==
    {c.teams, ReversedList(c.teams), Tail(c.teams),
     [c.teams EXCEPT ![1].name = <<"name", 90>>],
     << [id |-> 91, name |-> c.teams[1].name, aliases |-> <<>>],
        [id |-> 92, name |-> <<"name", 92>>, aliases |-> c.teams[1].aliases] >>
         \o Tail(c.teams)}

\* the default values the target is built with
TargetDefaults == {<<0, 0, 0, 0>>, <<1, 0, 2, 0>>}

\* the deltas of an add_raw call
DeltaInputs == {<<1, 2, 3, 4>>, <<-1, 0, 1, 0>>}

\* identifiers of a team the registry does not hold
UnknownIdentifiers(c) ==
    LET t == Len(c.teams) + 1
    IN {<<"team", t>>, <<"id", t>>, <<"name", t>>, <<"alias", t>>}

InitDiff ==
    /\ tc = TeamContainerOf(NumTeams)
    /\ \E teams \in TargetTeams(tc), dv \in TargetDefaults :
           LET s == DifferentialsNew(<<>>, <<>>, <<>>, tc.teams, <<0, 0, 0, 0>>)
               t == DifferentialsNew(s.heap, s.conts, s.dobjs, teams, dv)
           IN heap = t.heap /\ conts = t.conts /\ dobjs = t.dobjs
    /\ op = <<"init", 0>>
    /\ IdleLog /\ IdleSeeding /\ IdlePairs /\ IdleMatchup /\ IdleBracket /\ IdleDf

idleDiff == <<tc, logVars, histVars, seeding_, pairVars, conts, dobjs, mres,
             bracketVars, df>>

\* S.add_raw(identifier, *deltas): op records the number of add_raw calls so
\* far, the arguments, whether KeyError was raised and the values before
DiffAddRaw ==
    /\ op[1] # "combine" /\ op[2] < MaxAdds
    /\ \E k \in Identifiers(tc) \cup UnknownIdentifiers(tc), deltas \in DeltaInputs :
           LET r == AddRawFrom(heap, conts, dobjs[1], k, deltas, 1)
           IN /\ heap' = r.heap
              /\ op' = <<"add_raw", op[2] + 1, k, deltas, r.raised, AllValues>>
    /\ UNCHANGED idleDiff

\* T.combine(S): op records the values before
DiffCombine ==
    /\ op[1] # "combine"
    /\ heap' = CombineFrom(heap, conts, dobjs[2], dobjs[1], 1)
    /\ op' = <<"combine", op[2], AllValues>>
    /\ UNCHANGED idleDiff

NextDiff == DiffAddRaw \/ DiffCombine

SpecDiff == InitDiff /\ [][NextDiff]_vars

\* the values of track t of the Differentials d, out of the values "vals" of
\* every container
TrackValues(vals, d, t) == vals[d[t]]

\* C11: after T.combine(S), where T is built on the registry S is built on
\* and held 0 in every slot of its four tracks, every track of T holds
\* exactly the values of the same track of S, and S is unchanged.
C11_CombineIntoZero ==
    (/\ op[1] = "combine"
     /\ dobjs[2].indexes = dobjs[1].indexes
     /\ \A j \in 1..Len(Tracks), s \in 1..Len(tc.teams) :
            TrackValues(op[3], dobjs[2], Tracks[j])[s] = 0)
    => \A j \in 1..Len(Tracks) :
           /\ TrackValues(AllValues, dobjs[2], Tracks[j])
                  = TrackValues(AllValues, dobjs[1], Tracks[j])
           /\ TrackValues(AllValues, dobjs[1], Tracks[j])
                  = TrackValues(op[3], dobjs[1], Tracks[j])

\* a zero target on the same registry has received a source that two
\* add_raw calls had filled
C11_Witness ==
    /\ op[1] = "combine" /\ op[2] = MaxAdds
    /\ dobjs[2].indexes = dobjs[1].indexes
    /\ \A j \in 1..Len(Tracks), s \in 1..Len(tc.teams) :
           TrackValues(op[3], dobjs[2], Tracks[j])[s] = 0
    /\ \A j \in 1..Len(Tracks) :
           \E s \in 1..Len(tc.teams) :
               TrackValues(AllValues, dobjs[2], Tracks[j])[s] # 0

-----------------------------------------------------------------------------
(* SpecSeries: one Series built from every combination of optional         *)
(* arguments and registered.                                               *)

InitSeries ==
    /\ tc = TeamContainerOf(NumTeams)
    /\ op = <<"init">>
    /\ IdleLog /\ IdleSeeding /\ IdlePairs /\ IdleTracks /\ IdleMatchup
    /\ IdleBracket /\ IdleDf

idleSeries == <<tc, histVars, seeding_, pairVars, trackVars, mres, bracketVars, df>>

\* sc.register(Series(T1, T2, r1, r2, rw1, rw2, vs1, vs2, vw1, vw2)): op
\* records the arguments
SeriesConstruct ==
    /\ sc_series = <<>>
    /\ \E r1 \in 0..MaxScore, r2 \in 0..MaxScore,
          rw1 \in OptBool, rw2 \in OptBool, vs1 \in OptScore, vs2 \in OptScore,
          vw1 \in OptBool, vw2 \in OptBool :
           LET a == [team_1 |-> 1, team_2 |-> 2, rscore_1 |-> r1, rscore_2 |-> r2,
                     rwin_1 |-> rw1, rwin_2 |-> rw2, vscore_1 |-> vs1,
                     vscore_2 |-> vs2, vwin_1 |-> vw1, vwin_2 |-> vw2]
               sc == RegisterOp(SC, SeriesInit(1, a))
           IN /\ sc_indexes' = sc.indexes /\ sc_series' = sc.series
              /\ op' = <<"Series", a>>
    /\ UNCHANGED idleSeries

NextSeries == SeriesConstruct

SpecSeries == InitSeries /\ [][NextSeries]_vars

\* C12 as stated: the primary win flag of a side of the series built is
\* TRUE whenever the caller supplied it as TRUE, whatever the scores are,
\* and is "the primary score of the side is strictly greater than the
\* other's" when the caller did not supply it.
C12_SuppliedWinFlagKept ==
    op[1] = "Series" =>
        LET a == op[2]
            s == sc_series[1][1]
        IN /\ a.rwin_1 = <<TRUE>> => s.rwin_1
           /\ a.rwin_2 = <<TRUE>> => s.rwin_2
           /\ a.rwin_1 = <<>> => s.rwin_1 = (a.rscore_1 > a.rscore_2)
           /\ a.rwin_2 = <<>> => s.rwin_2 = (a.rscore_2 > a.rscore_1)

\* the arguments a with every optional argument supplied as 0 or False left
\* out
FalsyOmitted(a) ==
    [a EXCEPT !.rwin_1 = IF @ = <<FALSE>> THEN <<>> ELSE @,
              !.rwin_2 = IF @ = <<FALSE>> THEN <<>> ELSE @,
              !.vscore_1 = IF @ = <<0>> THEN <<>> ELSE @,
              !.vscore_2 = IF @ = <<0>> THEN <<>> ELSE @,
              !.vwin_1 = IF @ = <<FALSE>> THEN <<>> ELSE @,
              !.vwin_2 = IF @ = <<FALSE>> THEN <<>> ELSE @]

\* C13: the series built from arguments in which optional overrides
\* (secondary scores, primary and secondary win flags) are supplied as 0 or
\* False has the field values of the series built with those overrides
\* left out.
C13_FalsyOverrideIsOmitted ==
    op[1] = "Series" => sc_series[1][1] = SeriesInit(1, FalsyOmitted(op[2]))

\* a secondary score supplied as 0 next to a positive primary score, and a
\* secondary win flag supplied as False for the side that won
C13_Witness ==
    /\ op[1] = "Series"
    /\ op[2].vscore_1 = <<0>> /\ op[2].rscore_1 > op[2].rscore_2
    /\ op[2].vwin_1 = <<FALSE>> /\ op[2].rwin_2 = <<FALSE>>
    /\ sc_series[1][1].vscore_1 = op[2].rscore_1
    /\ sc_series[1][1].vwin_1

-----------------------------------------------------------------------------
(* SpecBracket, a calculate that follows a calculate with no register in   *)
(* between.                                                                *)

\* the Matchup.Result records the outcomes rs hold: the outcome of a
\* matchup, the results of a match set
RECURSIVE PairingOutcomes(_)
PairingOutcomes(rs) ==
    IF rs = <<>> THEN <<>>
    ELSE (IF "winners" \in DOMAIN rs[1][2] THEN rs[1][2].results ELSE <<rs[1][2]>>)
             \o PairingOutcomes(Tail(rs))

\* a Matchup.Result that holds its two teams and nothing else
IdentityOnly(x) == x = ResultOf(x.team_1, x.team_2)

\* the series of the log that no call has returned yet
Unconsumed(series) == SelectSeq(Flatten(series), LAMBDA s : ~s.exhaused)

\* the outcome x carries the scores of the series s
OutcomeOfSeries(x, s) ==
    \/ <<x.team_1, x.team_2, x.rscore_1, x.rscore_2>>
           = <<s.team_1, s.team_2, <<s.rscore_1>>, <<s.rscore_2>>>>
    \/ <<x.team_1, x.team_2, x.rscore_1, x.rscore_2>>
           = <<s.team_2, s.team_1, <<s.rscore_2>>, <<s.rscore_1>>>>

\* C14 as stated: a calculate that follows a calculate, with no series
\* registered in between, records the outcomes and the complete flag that
\* the first one recorded.
C14_Original ==
    (op[1] = "calculate" /\ op[6] = 2) => results = op[5] /\ complete = op[7]

\* C14 amended: a calculate that follows a calculate, with no series
\* registered in between, resolves every pairing from a series the first
\* call left unconsumed, or records the identity-only outcome; when the
\* first call left no unconsumed series, every outcome of the second is
\* identity-only, the log and the df are unchanged, and complete is false
\* for a bracket that holds a node.
C14_SecondRecomputeConsumesAnew ==
    (op[1] = "calculate" /\ op[6] = 2) =>
        LET outcomes == PairingOutcomes(results)
            played == SelectSeq(outcomes, LAMBDA x : ~IdentityOnly(x))
        IN /\ Len(GetPlayedSeries(sc_series))
                  = Len(GetPlayedSeries(op[2])) + Len(played)
           /\ \A i \in 1..Len(played) :
                  \E s \in Range(Unconsumed(op[2])) :
                      /\ OutcomeOfSeries(played[i], s)
                      /\ [s EXCEPT !.exhaused = TRUE] \in Range(GetPlayedSeries(sc_series))
           /\ Unconsumed(op[2]) = <<>> =>
                  /\ played = <<>>
                  /\ sc_series = op[2] /\ df = op[3]
                  /\ matchups # <<>> => ~complete

\* the first calculate resolved the three nodes and set complete; the second
\* found every series consumed and recorded other outcomes
C14_Witness ==
    /\ op[1] = "calculate" /\ op[6] = 2
    /\ Range(matchups) = BracketKeys
    /\ op[7] /\ ~complete
    /\ Unconsumed(op[2]) = <<>>
    /\ DictGet(op[5], "a").winner # None /\ DictGet(results, "a").winner = None
    /\ results # op[5]

-----------------------------------------------------------------------------
(* SpecMatchup, the differentials of a calculate and the calls that        *)
(* consume nothing.                                                        *)

\* the deltas of the two sides of series s, as the series holds them
SideDeltas(s) ==
    << <<s.rscore_1 - s.rscore_2, s.vscore_1 - s.vscore_2,
         IF s.rwin_1 THEN 1 ELSE -1, IF s.vwin_1 THEN 1 ELSE -1>>,
       <<s.rscore_2 - s.rscore_1, s.vscore_2 - s.vscore_1,
         IF s.rwin_2 THEN 1 ELSE -1, IF s.vwin_2 THEN 1 ELSE -1>> >>

\* what the consumed series s adds to slot i of the j-th track
ExpectedDelta(s, j, i) ==
    IF tc.teams[i].id = s.team_1 THEN SideDeltas(s)[1][j]
    ELSE IF tc.teams[i].id = s.team_2 THEN SideDeltas(s)[2][j]
    ELSE 0

\* C16: when a calculate consumes a series, the idf of the result holds, in
\* each of its four tracks, the deltas of the series in the slots of its two
\* teams (own minus other primary score, own minus other secondary score,
\* +1 or -1 by the primary win flag, +1 or -1 by the secondary win flag, each
\* for the team that holds them in the series, whichever order the matchup
\* names the teams in) and 0 elsewhere; a df handed to the call is increased
\* by the same deltas, and the df of a call that was handed none is unchanged.
C16_DeltasOfConsumedSeries ==
    (op[1] = "calculate" /\ op[2].sid # 0) =>
        /\ \A j \in 1..Len(Tracks), i \in 1..Len(tc.teams) :
               /\ mres.idf[1][Tracks[j]][i] = ExpectedDelta(op[2], j, i)
               /\ df[Tracks[j]][i]
                      = op[6][Tracks[j]][i]
                            + (IF op[5] THEN ExpectedDelta(op[2], j, i) ELSE 0)
        /\ mres.df = IF op[5] THEN <<"df">> ELSE <<>>

\* the matchup named the teams in the other order than the series, whose
\* first side won by primary score while the second held the secondary
\* win flag too, and the df handed to the call held values
C16_Witness ==
    /\ op[1] = "calculate" /\ op[2].sid # 0 /\ op[5]
    /\ op[3] = op[2].team_2
    /\ op[2].rscore_1 > op[2].rscore_2 /\ op[2].vwin_2
    /\ op[2].vscore_1 # op[2].rscore_1
    /\ op[6].rgd[1] # 0
    /\ df # op[6]

\* the log holds a series of the two teams that no call has returned
HasUnconsumed(series, team_1, team_2) ==
    \E s \in Range(Unconsumed(series)) :
        {s.team_1, s.team_2} = {team_1, team_2}

\* C17: a calculate one of whose teams is None, or whose teams have no
\* unconsumed series in the log, records a result that holds the two teams
\* and nothing else (no scores, no flags, no winner, no loser, no df, no
\* idf), consumes no series and leaves the log and the df as they were.
C17_NothingConsumed ==
    (/\ op[1] = "calculate"
     /\ \/ op[3] = None \/ op[4] = None
        \/ ~HasUnconsumed(op[7], op[3], op[4]))
    => /\ mres.team_1 = op[3] /\ mres.team_2 = op[4]
       /\ mres.winner = None /\ mres.loser = None
       /\ \A f \in DOMAIN mres \ {"team_1", "team_2", "winner", "loser"} :
              mres[f] = <<>>
       /\ op[2] = NoSeries
       /\ sc_series = op[7] /\ df = op[6]

\* a team was None while the log held an unconsumed series, and the call
\* was handed the df
C17_Witness ==
    /\ op[1] = "calculate" /\ op[5]
    /\ op[3] # None /\ op[4] = None
    /\ Unconsumed(op[7]) # <<>>
    /\ mres.team_1 = op[3] /\ mres.winner = None
    /\ df = op[6]

-----------------------------------------------------------------------------
(* SpecDiff, combine into a target built on another registry, and add_raw. *)

\* the position, in the index of the source, of the first identifier of
\* source slot i that the index of the target holds; 0 if it holds none
FirstSharedKey(i) ==
    LET ps == {p \in 1..Len(dobjs[1].indexes) :
                  /\ dobjs[1].indexes[p][2] = i
                  /\ DictHas(dobjs[2].indexes, dobjs[1].indexes[p][1])}
    IN IF ps = {} THEN 0 ELSE CHOOSE p \in ps : \A q \in ps : p <= q

\* the slot of the target that source slot i is added to; 0 if it is skipped
LandingSlot(i) ==
    IF FirstSharedKey(i) = 0 THEN 0
    ELSE DictGet(dobjs[2].indexes, dobjs[1].indexes[FirstSharedKey(i)][1])

\* the sum of the values of the source slots 1..i that are added to slot
RECURSIVE Landed(_, _, _)
Landed(source_values, slot, i) ==
    IF i = 0 THEN 0
    ELSE Landed(source_values, slot, i - 1)
             + (IF LandingSlot(i) = slot THEN source_values[i] ELSE 0)

\* C18: T.combine(S) adds the value of every slot of every track of S once,
\* to the slot that the first identifier of that slot (in the order of the
\* index of S) which the index of T holds names in T; a slot of S none of
\* whose identifiers T holds is skipped; every other slot of T, and S, are
\* unchanged.
C18_CombineOncePerCompetitor ==
    op[1] = "combine" =>
        \A j \in 1..Len(Tracks) :
            LET source == TrackValues(op[3], dobjs[1], Tracks[j])
                before == TrackValues(op[3], dobjs[2], Tracks[j])
                after == TrackValues(AllValues, dobjs[2], Tracks[j])
            IN /\ TrackValues(AllValues, dobjs[1], Tracks[j]) = source
               /\ Len(after) = Len(before)
               /\ \A slot \in 1..Len(before) :
                      after[slot] = before[slot] + Landed(source, slot, Len(source))

\* the name and the alias of the first team of S are held by two teams of T:
\* its value went to the slot of the name and not to the slot of the alias;
\* the second team of S, which had a value, went to its own slot
C18_Witness ==
    /\ op[1] = "combine"
    /\ FirstSharedKey(1) # 0
    /\ \E p \in 1..Len(dobjs[1].indexes) :
           /\ dobjs[1].indexes[p][2] = 1
           /\ DictHas(dobjs[2].indexes, dobjs[1].indexes[p][1])
           /\ DictGet(dobjs[2].indexes, dobjs[1].indexes[p][1]) # LandingSlot(1)
           /\ TrackValues(AllValues, dobjs[2], "rgd")
                  [DictGet(dobjs[2].indexes, dobjs[1].indexes[p][1])]
                  = TrackValues(op[3], dobjs[2], "rgd")
                        [DictGet(dobjs[2].indexes, dobjs[1].indexes[p][1])]
    /\ TrackValues(op[3], dobjs[1], "rgd")[1] # 0
    /\ TrackValues(op[3], dobjs[1], "rgd")[2] # 0
    /\ TrackValues(AllValues, dobjs[2], "rgd")[LandingSlot(1)]
           = TrackValues(op[3], dobjs[2], "rgd")[LandingSlot(1)]
                 + TrackValues(op[3], dobjs[1], "rgd")[1]

\* the slot of the team of the registry that identifier k names (the Team
\* object, its id, its name or one of its aliases); 0 if there is none
NamedSlot(k) ==
    LET ss == {i \in 1..Len(tc.teams) :
                  k \in {<<"team", tc.teams[i].id>>, <<"id", tc.teams[i].id>>,
                         tc.teams[i].name} \cup Range(tc.teams[i].aliases)}
    IN IF ss = {} THEN 0 ELSE CHOOSE i \in ss : TRUE

\* C19: S.add_raw(identifier, d1, d2, d3, d4) with an identifier of a
\* registered team (the Team object, its id, its name or an alias) raises
\* nothing and increases the slot of that team in the track rgd by d1, vgd by
\* d2, rsd by d3 and vsd by d4, every other slot of every container being
\* unchanged; with an identifier the registry does not hold it raises
\* KeyError and every container is unchanged.
C19_AddRawOneSlotPerTrack ==
    op[1] = "add_raw" =>
        IF NamedSlot(op[3]) # 0
        THEN /\ ~op[5]
             /\ \A c \in 1..Len(conts) :
                    \A s \in 1..Len(AllValues[c]) :
                        AllValues[c][s]
                            = op[6][c][s]
                                  + (IF /\ s = NamedSlot(op[3])
                                        /\ \E j \in 1..Len(Tracks) : dobjs[1][Tracks[j]] = c
                                     THEN op[4][CHOOSE j \in 1..Len(Tracks) :
                                                    dobjs[1][Tracks[j]] = c]
                                     ELSE 0)
        ELSE op[5] /\ AllValues = op[6]

\* the second add_raw named the second team by its alias, after an add_raw
\* had written the tracks
C19_Witness ==
    /\ op[1] = "add_raw" /\ op[2] = MaxAdds /\ ~op[5]
    /\ op[3][1] = "alias" /\ NamedSlot(op[3]) = 2
    /\ op[4] = <<1, 2, 3, 4>>
    /\ TrackValues(op[6], dobjs[1], "vsd")[2] # 0
    /\ TrackValues(AllValues, dobjs[1], "vsd")[2] = TrackValues(op[6], dobjs[1], "vsd")[2] + 4
    /\ TrackValues(AllValues, dobjs[1], "rgd")[2] = TrackValues(op[6], dobjs[1], "rgd")[2] + 1

-----------------------------------------------------------------------------
(* SpecRound: a log of registered results, then one MatchSet calculated on *)
(* a seeding of the teams and None.                                        *)

\* the seedings handed to the match set: up to MaxSeedLen slots, no team and
\* no None twice
RoundSeedings ==
    {sg \in UNION {[1..n -> Range(BracketTeams) \cup {None}] : n \in 0..MaxSeedLen} :
        \A i \in 1..Len(sg), j \in 1..Len(sg) : sg[i] = sg[j] => i = j}

InitRound ==
    /\ tc = TeamContainerOf(Len(BracketTeams))
    /\ df = DifferentialsInit(tc)
    /\ op = <<"init">>
    /\ IdleLog /\ IdleSeeding /\ IdlePairs /\ IdleTracks /\ IdleMatchup /\ IdleBracket

idleRound == <<tc, histVars, pairVars, trackVars, bracketVars>>

\* sc.register(Series(t1, t2, r1, r2)), a win of either side or a tie; the
\* results are registered in the order of their pairs
RoundRegister ==
    /\ op[1] # "calculate" /\ NumRegistered < MaxReg
    /\ \E t1 \in Range(BracketTeams), t2 \in Range(BracketTeams),
          score \in {<<1, 0>>, <<0, 1>>, <<1, 1>>} :
           /\ t1 < t2
           /\ op[1] = "register" =>
                  op[2] < t1 \/ (op[2] = t1 /\ op[3] <= t2)
           /\ LET sc == RegisterOp(SC, SeriesInit(NumRegistered + 1,
                                       PlainArgs(t1, t2, score[1], score[2])))
              IN sc_indexes' = sc.indexes /\ sc_series' = sc.series
           /\ op' = <<"register", t1, t2>>
    /\ UNCHANGED <<seeding_, mres, df, idleRound>>

\* MatchSet(Seeding(tc).set(*sg), si).calculate(tc, sc[, df]), once: op
\* records the strategy and whether a df was handed in
RoundResolve ==
    /\ op[1] # "calculate"
    /\ \E sg \in RoundSeedings, si \in {"standard", "reversed"}, withDf \in BOOLEAN :
           LET r == MatchSetCalculate(tc, SC, SeedingSet(tc, sg), si,
                                      IF withDf THEN <<df>> ELSE <<>>)
           IN /\ seeding_' = SeedingSet(tc, sg)
              /\ mres' = r.result
              /\ sc_series' = r.series
              /\ df' = IF withDf THEN r.df[1] ELSE df
              /\ op' = <<"calculate", si, withDf>>
    /\ UNCHANGED <<sc_indexes, idleRound>>

NextRound == RoundRegister \/ RoundResolve

SpecRound == InitRound /\ [][NextRound]_vars

\* the i-th pairing of the seeding under strategy si: slot i against slot
\* half + i (standard) or against slot 2 * half + 1 - i (reversed)
PairingOf(si, seeding, i) ==
    LET half == Len(seeding) \div 2
    IN <<seeding[i], seeding[IF si = "standard" THEN half + i ELSE 2 * half + 1 - i]>>

\* C20: the result of MatchSet.calculate holds one Matchup.Result per pairing
\* that the strategy derives from the seeding, in the order of the pairings,
\* and its winners and its losers are seedings of as many slots, slot i
\* holding the winner and the loser, respectively, of the result of pairing
\* i, None when that result has no winner.
C20_OneSlotPerPairing ==
    op[1] = "calculate" =>
        LET half == Len(seeding_) \div 2
        IN /\ Len(mres.results) = half
           /\ Len(mres.winners) = half /\ Len(mres.losers) = half
           /\ \A i \in 1..half :
                  /\ <<mres.results[i].team_1, mres.results[i].team_2>>
                         = PairingOf(op[2], seeding_, i)
                  /\ mres.winners[i] = mres.results[i].winner
                  /\ mres.losers[i] = mres.results[i].loser
                  /\ mres.results[i].rscore_1 = <<>>
                         => mres.winners[i] = None /\ mres.losers[i] = None
                  /\ (/\ mres.results[i].rscore_1 # <<>>
                      /\ mres.results[i].rscore_1[1] > mres.results[i].rscore_2[1])
                         => /\ mres.winners[i] = PairingOf(op[2], seeding_, i)[1]
                            /\ mres.losers[i] = PairingOf(op[2], seeding_, i)[2]
                  /\ (/\ mres.results[i].rscore_1 # <<>>
                      /\ mres.results[i].rscore_1[1] < mres.results[i].rscore_2[1])
                         => /\ mres.winners[i] = PairingOf(op[2], seeding_, i)[2]
                            /\ mres.losers[i] = PairingOf(op[2], seeding_, i)[1]

\* the cross strategy on four slots, one of them None: the first pairing
\* has no winner, the second was won by its second team
C20_Witness ==
    /\ op[1] = "calculate" /\ op[2] = "reversed"
    /\ Len(seeding_) = 4
    /\ mres.winners[1] = None /\ mres.losers[1] = None
    /\ mres.winners[2] = seeding_[3] /\ mres.losers[2] = seeding_[2]
    /\ seeding_[2] # None /\ seeding_[3] # None

-----------------------------------------------------------------------------
(* SpecOrder: a seeding set from a list of teams and None, then one        *)
(* assignment to an index, one read of an index, or one sort.              *)

\* an assignment that appended the value without padding
SeedingSetItemAppend(seeding, k, v) ==
    IF Len(seeding) > k THEN [seeding EXCEPT ![k + 1] = v] ELSE Append(seeding, v)

\* Seeding.__setitem__ (lines 328-334)
SeedingSetItem(seeding, k, v) ==
    IF Len(seeding) > k THEN [seeding EXCEPT ![k + 1] = v]
    ELSE LET padded == seeding \o [i \in 1..(k - (Len(seeding) - 1)) |-> None]
         IN [padded EXCEPT ![k + 1] = v]

\* the lists handed to Seeding.set: up to MaxSeedLen teams and None
OrderSeedings ==
    UNION {[1..n -> Range(BracketTeams) \cup {None}] : n \in 0..MaxSeedLen}

\* the criteria handed to sort: none; a track of values 0 and 1 with
\* coefficient 1 or -1; such a track and then a seeding of the teams
OrderSortBy ==
    LET tracks == {[kind |-> "dc", values |-> v] :
                      v \in [1..Len(BracketTeams) -> {0, 1}]}
        others == {[kind |-> "seeding", seeding_ |-> sg] :
                      sg \in {<<3, 2, 1>>, <<2, 3, 1>>}}
        first == {<<coef, t>> : coef \in {1, -1}, t \in tracks}
        second == {<<coef, o>> : coef \in {1, -1}, o \in others}
    IN {<<>>} \cup {<<a>> : a \in first} \cup {<<a, b>> : a \in first, b \in second}

InitOrder ==
    /\ tc = TeamContainerOf(Len(BracketTeams))
    /\ \E identifiers \in OrderSeedings : seeding_ = SeedingSet(tc, identifiers)
    /\ op = <<"init">>
    /\ IdleLog /\ IdlePairs /\ IdleTracks /\ IdleMatchup /\ IdleBracket /\ IdleDf

idleOrder == <<tc, logVars, histVars, pairVars, trackVars, mres, bracketVars, df>>

\* seeding[k] = v: op records the arguments and the seeding before
OrderSetItem ==
    /\ op[1] = "init"
    /\ \E k \in 0..MaxSeedLen, v \in Range(BracketTeams) \cup {None} :
           /\ seeding_' = SeedingSetItem(seeding_, k, v)
           /\ op' = <<"setitem", k, v, seeding_>>
    /\ UNCHANGED idleOrder

\* seeding[k]: op records the argument and the value returned
OrderGetItem ==
    /\ op[1] = "init"
    /\ \E k \in 0..MaxSeedLen :
           op' = <<"getitem", k, SeedingGetItem(seeding_, k)>>
    /\ UNCHANGED <<seeding_, idleOrder>>

\* seeding.sort(*sort_by): op records the criteria and the seeding before
OrderSort ==
    /\ op[1] = "init"
    /\ \E sort_by \in OrderSortBy :
           /\ seeding_' = Sort(tc, seeding_, sort_by)
           /\ op' = <<"sort", sort_by, seeding_>>
    /\ UNCHANGED idleOrder

NextOrder == OrderSetItem \/ OrderGetItem \/ OrderSort

SpecOrder == InitOrder /\ [][NextOrder]_vars

\* the 0-based position of the first slot of seeding that holds team
FirstPosition(seeding, team) ==
    (CHOOSE i \in 1..Len(seeding) :
         seeding[i] = team /\ \A j \in 1..(i - 1) : seeding[j] # team) - 1

\* the vector (coefficient x value) of a team over the criteria sort_by
KeyVector(sort_by, team) ==
    [n \in 1..Len(sort_by) |->
        sort_by[n][1] * (IF sort_by[n][2].kind = "dc"
                         THEN sort_by[n][2].values[CHOOSE i \in 1..Len(tc.teams) :
                                                       tc.teams[i].id = team]
                         ELSE FirstPosition(sort_by[n][2].seeding_, team))]

\* C21: after sort on a seeding without a None slot, no slot holds a team
\* whose vector (coefficient x value, over the criteria in the order given)
\* is lexicographically less than the vector of a team in a slot before
\* it, and the teams of one vector are the teams that had that vector
\* before, in the order they had; after sort on a seeding with a None slot
\* the seeding is as it was.
C21_SortStableLexicographic ==
    op[1] = "sort" =>
        IF \E i \in 1..Len(op[3]) : op[3][i] = None
        THEN seeding_ = op[3]
        ELSE /\ Len(seeding_) = Len(op[3])
             /\ \A i \in 1..Len(seeding_), j \in 1..Len(seeding_) :
                    i < j => ~LexLess(KeyVector(op[2], seeding_[j]),
                                      KeyVector(op[2], seeding_[i]))
             /\ \A t \in Range(op[3]) :
                    SelectSeq(seeding_,
                              LAMBDA x : KeyVector(op[2], x) = KeyVector(op[2], t))
                        = SelectSeq(op[3],
                              LAMBDA x : KeyVector(op[2], x) = KeyVector(op[2], t))

\* a track with coefficient -1 moved the third team of three in front of
\* two teams of equal value, which kept their order
C21_Witness ==
    /\ op[1] = "sort" /\ Len(op[2]) = 1 /\ op[2][1][1] = -1
    /\ op[3] = <<2, 1, 3>> /\ seeding_ = <<3, 2, 1>>
    /\ KeyVector(op[2], 1) = KeyVector(op[2], 2)

\* C23: seeding[k] = v with k at or beyond the length L makes the length
\* k + 1, leaves the slots 0..L-1 as they were, makes the slots L..k-1 None
\* and sets slot k to v; with k below L it changes slot k only; seeding[k]
\* with k at or beyond the length returns None, and the slot otherwise.
C23_AssignPadsReadDefaults ==
    /\ op[1] = "setitem" =>
           LET k == op[2]
               L == Len(op[4])
           IN /\ Len(seeding_) = IF k >= L THEN k + 1 ELSE L
              /\ seeding_[k + 1] = op[3]
              /\ \A i \in 1..Len(seeding_) :
                     i # k + 1 => seeding_[i] = IF i <= L THEN op[4][i] ELSE None
    /\ op[1] = "getitem" =>
           op[3] = IF op[2] >= Len(seeding_) THEN None ELSE seeding_[op[2] + 1]

\* a team was assigned two slots beyond the end of a seeding of two teams
C23_Witness ==
    /\ op[1] = "setitem" /\ op[2] = 3 /\ op[3] # None
    /\ Len(op[4]) = 2 /\ op[4][1] # None /\ op[4][2] # None
    /\ seeding_ = op[4] \o <<None, op[3]>>

-----------------------------------------------------------------------------
(* SpecLog, the list of the consumed results.                              *)

\* the registration number of the first result of the pair of s: the order
\* in which the buckets were created
BucketAge(s) ==
    CHOOSE n \in {x.sid : x \in OfPair(Flatten(sc_series), UPair(s.team_1, s.team_2))} :
        \A x \in OfPair(Flatten(sc_series), UPair(s.team_1, s.team_2)) : n <= x.sid

\* C22: get_played_series returns the results that successful takes have
\* returned so far and no other, each once, a result of a bucket created
\* earlier before a result of a bucket created later and, within a bucket,
\* an earlier registered result before a later one; the call leaves the
\* buckets and their flags as they were.
C22_PlayedAreTheTaken ==
    op[1] = "get_played_series" =>
        /\ {op[2][i].sid : i \in 1..Len(op[2])} = htaken
        /\ Len(op[2]) = Cardinality(htaken)
        /\ \A i \in 1..Len(op[2]) : op[2][i] \in Range(Flatten(sc_series))
        /\ \A i \in 1..Len(op[2]), j \in 1..Len(op[2]) :
               i < j => \/ BucketAge(op[2][i]) < BucketAge(op[2][j])
                        \/ /\ BucketAge(op[2][i]) = BucketAge(op[2][j])
                           /\ op[2][i].sid < op[2][j].sid
        /\ sc_series = op[3]

\* the results of two pairs were both taken and are listed, the result of
\* the bucket created first before the other
C22_Witness ==
    /\ op[1] = "get_played_series"
    /\ Len(op[2]) = 2 /\ Len(sc_series) = 2
    /\ op[2][1].sid = 1 /\ op[2][2].sid = 2
    /\ htaken = {1, 2}

-----------------------------------------------------------------------------
(* SpecBracket, the consumed flags and the df over registrations and       *)
(* calculates.                                                             *)

\* what the series ss add to slot i of the j-th track
RECURSIVE ConsumedSum(_, _, _)
ConsumedSum(ss, j, i) ==
    IF ss = <<>> THEN 0
    ELSE ExpectedDelta(ss[1], j, i) + ConsumedSum(Tail(ss), j, i)

\* every series whose flag is set keeps its place in the log and its flag
FlagsKept ==
    \A b \in 1..Len(sc_series) : \A i \in 1..Len(sc_series[b]) :
        sc_series[b][i].exhaused =>
            /\ b <= Len(sc_series') /\ i <= Len(sc_series'[b])
            /\ sc_series'[b][i] = sc_series[b][i]

\* the df holds the deltas of every consumed series once; the outcomes of a
\* calculate that hold scores are as many as the series the call consumed
CountedOnce ==
    /\ \A j \in 1..Len(Tracks), i \in 1..Len(tc.teams) :
           df[Tracks[j]][i] = ConsumedSum(GetPlayedSeries(sc_series), j, i)
    /\ op[1] = "calculate" =>
           LET played == SelectSeq(PairingOutcomes(results),
                                   LAMBDA x : ~IdentityOnly(x))
           IN /\ Len(GetPlayedSeries(sc_series))
                     = Len(GetPlayedSeries(op[2])) + Len(played)
              /\ \A n \in 1..Len(played) :
                     \E s \in Range(Unconsumed(op[2])) :
                         /\ OutcomeOfSeries(played[n], s)
                         /\ [s EXCEPT !.exhaused = TRUE]
                                \in Range(GetPlayedSeries(sc_series))

\* C24: over every sequence of next, register and calculate of the bracket,
\* a series whose consumed flag is set keeps it in every later state; the
\* outcomes with scores that a calculate records are as many as the series
\* it consumed, each from a series unconsumed before the call; and the df,
\* all zero at the start, holds in every state the deltas of each consumed
\* series exactly once, although a pair of teams is read by several nodes and
\* calculate follows calculate.
C24_ConsumedOnceForGood == []CountedOnce /\ [][FlagsKept]_vars

\* a second calculate in a row: the first consumed a series, the second
\* another one, the matchup b and the second pairing of the round read the
\* same pair of teams, and the df holds values
C24_Witness ==
    /\ op[1] = "calculate" /\ op[6] = 2
    /\ Range(matchups) = BracketKeys
    /\ GetPlayedSeries(op[2]) # <<>>
    /\ Len(GetPlayedSeries(sc_series)) > Len(GetPlayedSeries(op[2]))
    /\ LET b == DictGet(results, "b")
           r == DictGet(results, "r").results[2]
       IN /\ b.team_1 # None /\ b.team_2 # None
          /\ {b.team_1, b.team_2} = {r.team_1, r.team_2}
          /\ IdentityOnly(b) # IdentityOnly(r)
    /\ df # DifferentialsInit(tc)

-----------------------------------------------------------------------------
(* SpecSort, the slots of the seeding across a sort_no_rematches.          *)

\* how many slots of the list hold v
CountOf(list, v) == Cardinality({i \in 1..Len(list) : list[i] = v})

\* C25: after every sort_no_rematches, whether it returned the seeding or
\* ran out of permutations, with or without sort criteria, the seeding has
\* the length it had before the call and holds every team, and None, in as
\* many slots as before the call.
C25_SearchPermutesSlots ==
    op[1] = "sort_no_rematches" =>
        /\ Len(seeding_) = Len(op[4])
        /\ \A v \in Range(op[4]) \cup Range(seeding_) :
               CountOf(seeding_, v) = CountOf(op[4], v)

\* the call sorted four teams by the criteria and then moved them again to
\* avoid a rematch
C25_Witness ==
    /\ op[1] = "sort_no_rematches" /\ op[3] = "self" /\ ~op[6]
    /\ Len(op[4]) = 4
    /\ op[5] # op[4] /\ seeding_ # op[5] /\ seeding_ # op[4]

-----------------------------------------------------------------------------
(* SpecBracket, the score-margin tracks of the df.                         *)

\* the sum of the values of a track
RECURSIVE TrackSum(_)
TrackSum(values) ==
    IF values = <<>> THEN 0 ELSE values[1] + TrackSum(Tail(values))

\* C26: in every state of a bracket whose df started all zero and is written
\* by the calculates of its matchups and its round only, whatever results
\* were registered and however many calculates ran, the values of the rgd
\* track sum to zero over the teams, and so do the values of the vgd track.
C26_MarginsSumToZero ==
    /\ TrackSum(df.rgd) = 0
    /\ TrackSum(df.vgd) = 0

\* a second calculate in a row left three consumed series in the log and a
\* team two ahead in both margin tracks
C26_Witness ==
    /\ op[1] = "calculate" /\ op[6] = 2
    /\ Len(GetPlayedSeries(sc_series)) = 3
    /\ \E i \in 1..Len(tc.teams) : df.rgd[i] = 2 /\ df.vgd[i] = 2
    /\ df # op[3]

=============================================================================
